---- MODULE Spec2Model ----
(***************************************************************************)
(* Verification model of baselode's drill-hole geometry core:              *)
(*   desurvey.py   _desurvey and its three public wrappers,                *)
(*                 attach_assay_positions                                  *)
(*   data.py       _frame, _canonicalize_hole_id                           *)
(*                                                                         *)
(* Number representation.  The program computes with binary64 floats; the  *)
(* model computes with fixed-point integers:                               *)
(*   measured depths (md, from, to, step)  in units of 1/MdScale           *)
(*   angles in degrees                     in units of 1/AngScale          *)
(*   angles in radians                     in milliradians                 *)
(*   sines, cosines, direction cosines     in units of 1/TrigScale         *)
(*   the ratio factor                      in units of 1/RfScale           *)
(*   positions (x, y, z)                   in units of 1/PosScale          *)
(* Additions, subtractions and the products that enter a position are      *)
(* exact (PosScale carries every factor); a division rounds to the nearest  *)
(* representable value, as a float division does (MdScale is a power of    *)
(* two, so the depths that are exact in the model are exact in binary64);  *)
(* sin, cos, acos and the ratio factor are tabulated every 15 degrees.     *)
(*                                                                         *)
(* A table (pandas DataFrame) is a record [columns, rows]; a missing value *)
(* number is NaN, a missing hole id is NoHole; the Python value None is    *)
(* None.                                                                   *)
(***************************************************************************)
EXTENDS Integers, Naturals, Sequences, FiniteSets, TLC

VARIABLES collars, surveys, assays, traces, result, pc

vars == <<collars, surveys, assays, traces, result, pc>>

----------------------------------------------------------------------------
(* Fixed-point scales *)

MdScale == 2 ^ 4
AngScale == 10 ^ 1
TrigScale == 10 ^ 3
RfScale == 10 ^ 2
WeightScale == 10 ^ 3
PosScale == MdScale * TrigScale * 2 * RfScale

(* a missing number (float NaN) and a missing hole id (None or NaN) *)
NaN == -(10 ^ 9)
NoHole == "NaN"
None == [py_none |-> TRUE]

IsNaN(v) == v = NaN

Max(a, b) == IF a >= b THEN a ELSE b
Min(a, b) == IF a <= b THEN a ELSE b
Abs(a) == IF a >= 0 THEN a ELSE -a

(* n / d rounded to the nearest integer (d > 0) *)
Round(n, d) == (2 * n + d) \div (2 * d)

(* math.ceil(n / d) for d > 0 *)
Ceil(n, d) == -((-n) \div d)

(* float("inf") *)
Inf == 10 ^ 9 + 1

IsInf(v) == v = Inf

(* a + b and a * b where a missing operand gives a missing result *)
FAdd(a, b) == IF IsNaN(a) \/ IsNaN(b) THEN NaN ELSE a + b
FMul(a, b) == IF IsNaN(a) \/ IsNaN(b) THEN NaN ELSE a * b

(* 0.5 * (a + b); an infinite operand gives an infinite result *)
FHalfSum(a, b) ==
  IF IsNaN(a) \/ IsNaN(b) THEN NaN
  ELSE IF IsInf(a) \/ IsInf(b) THEN Inf
  ELSE Round(a + b, 2)

----------------------------------------------------------------------------
(* Bounds of the explored inputs *)

MaxStations == 3
MaxIntervals == 2
MaxVertices == 3

----------------------------------------------------------------------------
(* Geometry primitives: desurvey.py lines 40-72 *)

(* sin at 0, 15, ..., 345 degrees, in units of 1/TrigScale *)
SinTable ==
  << 0, 259, 500, 707, 866, 966, 1000, 966, 866, 707, 500, 259,
     0, -259, -500, -707, -866, -966, -1000, -966, -866, -707, -500, -259 >>

(* 2*tan(d/2)/d at d = 15, 30, ..., 165 degrees, in units of 1/RfScale *)
RfTable == << 101, 102, 105, 110, 117, 127, 142, 165, 205, 285, 528 >>

(* 15 degrees in microradians *)
TableStep == 261799

(* math.radians: tenths of a degree to milliradians *)
_deg_to_rad(angle) == Round(angle * 174533, 100000)

(* index of the table entry nearest to an angle given in milliradians *)
TableIndex(rad) == Round(rad * 1000, TableStep)

math_sin(rad) == SinTable[(TableIndex(rad) % 24) + 1]
math_cos(rad) == SinTable[((TableIndex(rad) + 6) % 24) + 1]

(* math.acos of v in [-TrigScale, TrigScale]; the result is in microradians *)
math_acos(v) ==
  LET c(i) == SinTable[((i + 6) % 24) + 1]
      best == CHOOSE i \in 0..12 :
                \A j \in 0..12 :
                  \/ Abs(c(i) - v) < Abs(c(j) - v)
                  \/ (Abs(c(i) - v) = Abs(c(j) - v) /\ i <= j)
  IN Round(best * 3141593, 12)

(* 2 * math.tan(dogleg / 2) / dogleg for dogleg in microradians, 0 < dogleg < pi *)
TanRatio(dogleg) == RfTable[Round(dogleg, TableStep)]

(* math.sin and math.cos raise ValueError ("math domain error") for an     *)
(* infinite argument and return NaN for NaN.                               *)
_direction_cosines(azimuth, dip) ==
  LET az_rad == _deg_to_rad(azimuth)
      dip_rad == _deg_to_rad(dip)
  IN IF IsInf(azimuth) \/ IsInf(dip)
     THEN [raised |-> "ValueError", ca |-> NaN, cb |-> NaN, cc |-> NaN]
     ELSE [raised |-> "none",
           ca |-> IF IsNaN(azimuth) \/ IsNaN(dip) THEN NaN
                  ELSE Round(math_cos(dip_rad) * math_sin(az_rad), TrigScale),
           cb |-> IF IsNaN(azimuth) \/ IsNaN(dip) THEN NaN
                  ELSE Round(math_cos(dip_rad) * math_cos(az_rad), TrigScale),
           cc |-> IF IsNaN(dip) THEN NaN ELSE math_sin(dip_rad) * (-1)]

(* dogleg > 1e-6 (radians): the threshold in microradians *)
DoglegThreshold == 1

(* the dogleg angle of a segment, in microradians: desurvey.py line 65 *)
(* min(1.0, dot) is 1.0 when dot is NaN *)
Dogleg(d0, d1) ==
  LET dot == FAdd(FAdd(FMul(d0.ca, d1.ca), FMul(d0.cb, d1.cb)), FMul(d0.cc, d1.cc))
  IN math_acos(Max(-TrigScale,
                   IF IsNaN(dot) THEN TrigScale
                   ELSE Min(TrigScale, Round(dot, TrigScale))))

(* the ratio factor of a segment, in units of 1/RfScale: desurvey.py lines 66-68 *)
RatioFactor(dogleg) ==
  IF dogleg > DoglegThreshold THEN TanRatio(dogleg) ELSE RfScale

(* _segment_displacement with the factor 0.5 of minimum curvature left out *)
_segment_displacement_no_half(delta_md, az0, dip0, az1, dip1, method) ==
  LET d0 == _direction_cosines(az0, dip0)
      d1 == _direction_cosines(az1, dip1)
      failed == [raised |-> "ValueError", dx |-> NaN, dy |-> NaN, dz |-> NaN,
                 azimuth |-> NaN, dip |-> NaN]
  IN IF d0.raised # "none" \/ d1.raised # "none" THEN failed
     ELSE IF method = "tangential"
     THEN [raised |-> "none",
           dx |-> FMul(delta_md * 2 * RfScale, d0.ca),
           dy |-> FMul(delta_md * 2 * RfScale, d0.cb),
           dz |-> FMul(delta_md * 2 * RfScale, d0.cc),
           azimuth |-> az0, dip |-> dip0]
     ELSE IF method = "balanced_tangential"
     THEN LET az_avg == FHalfSum(az0, az1)
              dip_avg == FHalfSum(dip0, dip1)
              avg == _direction_cosines(az_avg, dip_avg)
          IN IF avg.raised # "none" THEN failed
             ELSE [raised |-> "none",
                   dx |-> FMul(delta_md * 2 * RfScale, avg.ca),
                   dy |-> FMul(delta_md * 2 * RfScale, avg.cb),
                   dz |-> FMul(delta_md * 2 * RfScale, avg.cc),
                   azimuth |-> az_avg, dip |-> dip_avg]
     ELSE LET rf == RatioFactor(Dogleg(d0, d1))
          IN [raised |-> "none",
              dx |-> FMul(2 * delta_md * rf, FAdd(d0.ca, d1.ca)),
              dy |-> FMul(2 * delta_md * rf, FAdd(d0.cb, d1.cb)),
              dz |-> FMul(2 * delta_md * rf, FAdd(d0.cc, d1.cc)),
              azimuth |-> az1, dip |-> dip1]

(* delta_md is in units of 1/MdScale; dx, dy, dz are in units of 1/PosScale *)
_segment_displacement(delta_md, az0, dip0, az1, dip1, method) ==
  LET d0 == _direction_cosines(az0, dip0)
      d1 == _direction_cosines(az1, dip1)
      failed == [raised |-> "ValueError", dx |-> NaN, dy |-> NaN, dz |-> NaN,
                 azimuth |-> NaN, dip |-> NaN]
  IN IF d0.raised # "none" \/ d1.raised # "none" THEN failed
     ELSE IF method = "tangential"
     THEN [raised |-> "none",
           dx |-> FMul(delta_md * 2 * RfScale, d0.ca),
           dy |-> FMul(delta_md * 2 * RfScale, d0.cb),
           dz |-> FMul(delta_md * 2 * RfScale, d0.cc),
           azimuth |-> az0, dip |-> dip0]
     ELSE IF method = "balanced_tangential"
     THEN LET az_avg == FHalfSum(az0, az1)
              dip_avg == FHalfSum(dip0, dip1)
              avg == _direction_cosines(az_avg, dip_avg)
          IN IF avg.raised # "none" THEN failed
             ELSE [raised |-> "none",
                   dx |-> FMul(delta_md * 2 * RfScale, avg.ca),
                   dy |-> FMul(delta_md * 2 * RfScale, avg.cb),
                   dz |-> FMul(delta_md * 2 * RfScale, avg.cc),
                   azimuth |-> az_avg, dip |-> dip_avg]
     ELSE LET rf == RatioFactor(Dogleg(d0, d1))
          IN [raised |-> "none",
              dx |-> FMul(delta_md * rf, FAdd(d0.ca, d1.ca)),
              dy |-> FMul(delta_md * rf, FAdd(d0.cb, d1.cb)),
              dz |-> FMul(delta_md * rf, FAdd(d0.cc, d1.cc)),
              azimuth |-> az1, dip |-> dip1]

----------------------------------------------------------------------------
(* Table helpers: the pandas operations the program uses *)

(* DataFrame.empty: no rows or no columns *)
IsEmpty(df) == Len(df.rows) = 0 \/ df.columns = {}

(* pd.DataFrame() and pd.DataFrame([]): no columns, no rows *)
NoColumnsFrame == [columns |-> {}, rows |-> << >>]

(* ascending order of the hole identifiers (Python string comparison) *)
HoleOrder == << "A", "B" >>

HoleRank(h) == CHOOSE i \in 1..Len(HoleOrder) : HoleOrder[i] = h

(* the sort key of a number: missing values are placed last *)
NumKey(v) == IF IsNaN(v) THEN 10 ^ 9 ELSE v

(* the sort key of a hole id: missing values are placed last *)
HoleKey(h) == IF h = NoHole THEN Len(HoleOrder) + 1 ELSE HoleRank(h)

(* DataFrame.sort_values: the rows of s in ascending order of key, where    *)
(* key[i] is the sort key of s[i]; rows with equal keys keep their order.  *)
SortedBy(s, key) ==
  LET n == Len(s)
      before(i) == {j \in 1..n : key[j] < key[i] \/ (key[j] = key[i] /\ j < i)}
  IN [k \in 1..n |-> s[CHOOSE i \in 1..n : Cardinality(before(i)) = k - 1]]

(* GroupKeys with the hole ids in order of first appearance *)
GroupKeys_first_appearance(df) ==
  LET firsts == SelectSeq([i \in 1..Len(df.rows) |-> i],
                          LAMBDA i : /\ df.rows[i].hole_id # NoHole
                                     /\ \A j \in 1..(i - 1) :
                                           df.rows[j].hole_id # df.rows[i].hole_id)
  IN [k \in 1..Len(firsts) |-> df.rows[firsts[k]].hole_id]

(* the distinct non-missing hole ids of a table in ascending order:        *)
(* the group keys of DataFrame.groupby("hole_id")                          *)
GroupKeys(df) ==
  LET present == {df.rows[i].hole_id : i \in 1..Len(df.rows)} \ {NoHole}
      n == Cardinality(present)
  IN [k \in 1..n |->
        CHOOSE h \in present :
          Cardinality({g \in present : HoleRank(g) < HoleRank(h)}) = k - 1]

----------------------------------------------------------------------------
(* data.py (src/src/baselode/drill/data.py) lines 11-70 *)

DEFAULT_COLUMN_MAP ==
  ("holeid" :> "hole_id") @@ ("hole_id" :> "hole_id") @@
  ("collarid" :> "collar_id") @@ ("collar_id" :> "collar_id") @@
  ("companyholeid" :> "company_hole_id") @@
  ("company_hole_id" :> "company_hole_id") @@
  ("project" :> "project_id") @@ ("projectid" :> "project_id") @@
  ("project_id" :> "project_id") @@ ("project_code" :> "project_code") @@
  ("from" :> "from") @@ ("to" :> "to") @@
  ("depth_from" :> "from") @@ ("depth_to" :> "to") @@
  ("fromdepth" :> "from") @@ ("todepth" :> "to") @@
  ("samp_from" :> "from") @@ ("samp_to" :> "to") @@
  ("sample_from" :> "from") @@ ("sample_to" :> "to") @@
  ("easting" :> "x") @@ ("northing" :> "y") @@ ("surveydepth" :> "from") @@
  ("latitude" :> "lat") @@ ("lat" :> "lat") @@
  ("longitude" :> "lon") @@ ("lon" :> "lon") @@
  ("elevation" :> "z") @@ ("rl" :> "z") @@
  ("azimuth" :> "azimuth") @@ ("dip" :> "dip") @@
  ("declination" :> "declination")

(* DEFAULT_COLUMN_MAP.get(key, default); the keys used here are already    *)
(* lower case without surrounding blanks, so lower().strip() keeps them    *)
ColumnMapGet(key, default) ==
  IF key \in DOMAIN DEFAULT_COLUMN_MAP THEN DEFAULT_COLUMN_MAP[key] ELSE default

_frame(df) == IF df = None THEN NoColumnsFrame ELSE df

(* The result is [raised, df, hole_id_col]: raised is "ValueError" when no  *)
(* hole id column is found, and hole_id_col is df.attrs["hole_id_col"].    *)
_canonicalize_hole_id(df, hole_id_col) ==
  LET col0 == IF hole_id_col = None THEN "hole_id" ELSE hole_id_col
      normalized == ColumnMapGet(col0, col0)
      col1 == IF col0 \notin df.columns /\ normalized # col0
                 /\ normalized \in df.columns
              THEN normalized ELSE col0
      col == IF col1 \notin df.columns /\ "hole_id" \in df.columns
             THEN "hole_id" ELSE col1
  IN IF col \notin df.columns
     THEN [raised |-> "ValueError", df |-> df, hole_id_col |-> col]
     ELSE IF "hole_id" \notin df.columns
     THEN [raised |-> "none",
           df |-> [columns |-> df.columns \cup {"hole_id"},
                   rows |-> [i \in 1..Len(df.rows) |->
                               [c \in (DOMAIN df.rows[i]) \cup {"hole_id"} |->
                                  IF c = "hole_id" THEN df.rows[i][col]
                                  ELSE df.rows[i][c]]]],
           hole_id_col |-> col]
     ELSE [raised |-> "none", df |-> df, hole_id_col |-> col]

FrameIsCallersObject_no_copy(df) == df # None

(* data.py 47-52: whether the frame that _frame returns is the object the  *)
(* caller passed.  Every branch builds a new frame: pd.DataFrame(),        *)
(* df.copy() or pd.DataFrame(df).                                          *)
FrameIsCallersObject(df) == FALSE

(* data.py 66-69: the frame that was passed to _canonicalize_hole_id, as   *)
(* it is after the call.  Lines 66-68 rebind df to a copy before the       *)
(* hole_id column is added; line 69 writes attrs of the frame df is bound  *)
(* to, which is the frame passed in when no copy was taken.                *)
CanonicalizeWrites(df, hole_id_col) ==
  LET c == _canonicalize_hole_id(df, hole_id_col)
  IN IF c.raised # "none" \/ "hole_id" \notin df.columns
     THEN df
     ELSE [columns |-> df.columns, rows |-> df.rows,
           attrs |-> [hole_id_col |-> c.hole_id_col]]

(* the caller's table after _canonicalize_hole_id(_frame(table)) has run *)
CallerTableAfter(table, hole_id_col) ==
  IF table # None /\ FrameIsCallersObject(table)
  THEN CanonicalizeWrites(table, hole_id_col)
  ELSE table

----------------------------------------------------------------------------
(* Trajectory reconstruction: desurvey.py lines 75-154 *)

TraceColumns == {"hole_id", "md", "x", "y", "z", "azimuth", "dip"}

(* collar_row.get(name, 0) *)
RowGet(row, name, default) == IF name \in DOMAIN row THEN row[name] ELSE default

(* lines 113-114: a0 + weight * (a1 - a0), weight in units of 1/WeightScale *)
Interpolated(a0, a1, weight) ==
  IF IsNaN(a0) \/ IsNaN(a1) THEN NaN
  ELSE IF IsInf(a0) \/ IsInf(a1) THEN Inf
  ELSE a0 + Round(weight * (a1 - a0), WeightScale)

(* lines 110-137: the sub-steps step_idx..segment_steps-1 of one segment.   *)
(* st = [raised, md_cursor, x, y, z, traces] is the loop state; raised is  *)
(* the exception that ended the loop, "none" while it runs.  d is what     *)
(* _segment_displacement returns at lines 115-122: its arguments are the   *)
(* same in every sub-step of a segment.                                    *)
RECURSIVE SubSteps(_, _, _, _, _, _, _, _, _)
SubSteps(st, step_idx, segment_steps, md_increment, s0, s1, hole_id, method, d) ==
  IF step_idx >= segment_steps \/ st.raised # "none" THEN st
  ELSE
    LET md0 == s0.from
        delta_md == s1.from - s0.from
        md_cursor == st.md_cursor + md_increment
        weight == Round((md_cursor - md0) * WeightScale, delta_md)
        az_interp == Interpolated(s0.azimuth, s1.azimuth, weight)
        dip_interp == Interpolated(s0.dip, s1.dip, weight)
        x == FAdd(st.x, d.dx)
        y == FAdd(st.y, d.dy)
        z == FAdd(st.z, d.dz)
        record == [hole_id |-> hole_id, md |-> md_cursor,
                   x |-> x, y |-> y, z |-> z,
                   azimuth |-> IF method = "minimum_curvature"
                               THEN az_interp ELSE d.azimuth,
                   dip |-> IF method = "minimum_curvature"
                           THEN dip_interp ELSE d.dip]
    IN IF d.raised # "none" THEN [st EXCEPT !.raised = d.raised]
       ELSE SubSteps([raised |-> "none", md_cursor |-> md_cursor,
                      x |-> x, y |-> y, z |-> z,
                      traces |-> Append(st.traces, record)],
                     step_idx + 1, segment_steps, md_increment, s0, s1,
                     hole_id, method, d)

(* lines 108-109 *)
SegmentSteps(delta_md, step) == Max(1, Ceil(delta_md, step))

(* MdIncrement with the segment divided into one part too many *)
MdIncrement_one_part_more(delta_md, segment_steps) == Round(delta_md, segment_steps + 1)

(* line 109 *)
MdIncrement(delta_md, segment_steps) == Round(delta_md, segment_steps)

(* lines 97-137: the station pairs idx.. of one hole *)
RECURSIVE Segments(_, _, _, _, _, _)
Segments(st, idx, hole_surveys, hole_id, step, method) ==
  IF idx > Len(hole_surveys) - 1 \/ st.raised # "none" THEN st
  ELSE
    LET s0 == hole_surveys[idx]
        s1 == hole_surveys[idx + 1]
        delta_md == s1.from - s0.from
    IN IF delta_md <= 0
       THEN Segments(st, idx + 1, hole_surveys, hole_id, step, method)
       ELSE LET segment_steps == SegmentSteps(delta_md, step)
                md_increment == MdIncrement(delta_md, segment_steps)
                d == _segment_displacement(md_increment, s0.azimuth, s0.dip,
                                           s1.azimuth, s1.dip, method)
            IN Segments(SubSteps(st, 0, segment_steps, md_increment,
                                 s0, s1, hole_id, method, d),
                        idx + 1, hole_surveys, hole_id, step, method)

(* HoleSurveys without the sort by depth *)
HoleSurveys_unsorted(surveys_df, hole_id) ==
  SelectSeq(surveys_df.rows, LAMBDA r : r.hole_id = hole_id)

(* line 85: the stations of one hole in ascending depth *)
HoleSurveys(surveys_df, hole_id) ==
  LET rows == SelectSeq(surveys_df.rows, LAMBDA r : r.hole_id = hole_id)
  IN SortedBy(rows, [i \in 1..Len(rows) |-> NumKey(rows[i].from)])

(* HoleTrace with the first vertex placed at depth zero *)
HoleTrace_from_zero(traces_so_far, collars_df, surveys_df, hole_id, step, method) ==
  LET collar_row == SelectSeq(collars_df.rows, LAMBDA r : r.hole_id = hole_id)[1]
      hole_surveys == HoleSurveys(surveys_df, hole_id)
  IN IF Len(hole_surveys) = 0
     THEN [raised |-> "none", md_cursor |-> 0, x |-> 0, y |-> 0, z |-> 0,
           traces |-> traces_so_far]
     ELSE LET first == hole_surveys[1]
              x == RowGet(collar_row, "x", 0)
              y == RowGet(collar_row, "y", 0)
              z == RowGet(collar_row, "z", 0)
              first_record == [hole_id |-> hole_id, md |-> 0,
                               x |-> x, y |-> y, z |-> z,
                               azimuth |-> first.azimuth, dip |-> first.dip]
          IN Segments([raised |-> "none", md_cursor |-> 0,
                       x |-> x, y |-> y, z |-> z,
                       traces |-> Append(traces_so_far, first_record)],
                      1, hole_surveys, hole_id, step, method)

(* lines 84-137: the loop state after one hole, its vertices appended to   *)
(* traces_so_far                                                           *)
HoleTrace(traces_so_far, collars_df, surveys_df, hole_id, step, method) ==
  LET collar_row == SelectSeq(collars_df.rows, LAMBDA r : r.hole_id = hole_id)[1]
      hole_surveys == HoleSurveys(surveys_df, hole_id)
  IN IF Len(hole_surveys) = 0
     THEN [raised |-> "none", md_cursor |-> 0, x |-> 0, y |-> 0, z |-> 0,
           traces |-> traces_so_far]
     ELSE LET first == hole_surveys[1]
              x == RowGet(collar_row, "x", 0)
              y == RowGet(collar_row, "y", 0)
              z == RowGet(collar_row, "z", 0)
              first_record == [hole_id |-> hole_id, md |-> first.from,
                               x |-> x, y |-> y, z |-> z,
                               azimuth |-> first.azimuth, dip |-> first.dip]
          IN Segments([raised |-> "none", md_cursor |-> first.from,
                       x |-> x, y |-> y, z |-> z,
                       traces |-> Append(traces_so_far, first_record)],
                      1, hole_surveys, hole_id, step, method)

(* line 83: the loop over the collar groups *)
RECURSIVE HoleLoop(_, _, _, _, _, _, _)
HoleLoop(st, keys, k, collars_df, surveys_df, step, method) ==
  IF k > Len(keys) \/ st.raised # "none" THEN st
  ELSE HoleLoop(HoleTrace(st.traces, collars_df, surveys_df, keys[k], step, method),
                keys, k + 1, collars_df, surveys_df, step, method)

(* The result is [raised, columns, rows].                                  *)
_desurvey(collars_in, surveys_in, step, hole_id_col, method) ==
  LET c == _canonicalize_hole_id(_frame(collars_in), hole_id_col)
      s == _canonicalize_hole_id(_frame(surveys_in), hole_id_col)
  IN IF c.raised # "none"
     THEN [raised |-> c.raised, columns |-> {}, rows |-> << >>]
     ELSE IF s.raised # "none"
     THEN [raised |-> s.raised, columns |-> {}, rows |-> << >>]
     ELSE IF IsEmpty(c.df) \/ IsEmpty(s.df)
     THEN [raised |-> "none", columns |-> TraceColumns, rows |-> << >>]
     ELSE LET st == HoleLoop([raised |-> "none", md_cursor |-> 0,
                               x |-> 0, y |-> 0, z |-> 0, traces |-> << >>],
                              GroupKeys(c.df), 1, c.df, s.df, step, method)
          IN IF st.raised # "none"
             THEN [raised |-> st.raised, columns |-> {}, rows |-> << >>]
             ELSE [raised |-> "none",
                   columns |-> IF Len(st.traces) = 0 THEN {} ELSE TraceColumns,
                   rows |-> st.traces]

----------------------------------------------------------------------------
(* Inputs of reconstruction *)

CollarColumns == {"hole_id", "x", "y", "z"}
SurveyColumns == {"hole_id", "from", "azimuth", "dip"}

Methods == {"minimum_curvature", "tangential", "balanced_tangential"}

(* step sizes 7.0 and 10.0 *)
Steps == {7 * MdScale, 10 * MdScale}

(* station depths 0.0, 50.0 and 100.0 *)
MdVals == {0, 50 * MdScale, 100 * MdScale}

(* (azimuth, dip) pairs: straight down, and east at 30 degrees below horizontal *)
Orients == { <<0, -900>>, <<900, -300>> }

StationRows ==
  {[hole_id |-> "A", from |-> m, azimuth |-> o[1], dip |-> o[2]] :
      m \in MdVals, o \in Orients}
  \cup {[hole_id |-> "B", from |-> 50 * MdScale, azimuth |-> 0, dip |-> -900]}

SurveyTables ==
  {None, NoColumnsFrame}
  \cup {[columns |-> SurveyColumns, rows |-> r] :
          r \in UNION {[1..n -> StationRows] : n \in 0..MaxStations}}

CollarAt(h, cx, cy, cz) ==
  [hole_id |-> h, x |-> cx * PosScale, y |-> cy * PosScale, z |-> cz * PosScale]

CollarTables ==
  {None}
  \cup {[columns |-> CollarColumns, rows |-> r] :
          r \in { << >>,
                  << CollarAt("A", 0, 0, 0) >>,
                  << CollarAt("B", 1, 2, 3), CollarAt("A", 7, 8, 9) >>,
                  << CollarAt("A", 7, 8, 9), CollarAt("A", 0, 0, 0) >> }}

EmptyTable == [columns |-> {"hole_id"}, rows |-> << >>]

NoResult == [op |-> "none", step |-> 0, method |-> "none",
             out |-> [raised |-> "none", columns |-> {}, rows |-> << >>]]

Init ==
  /\ collars \in CollarTables
  /\ surveys \in SurveyTables
  /\ assays = EmptyTable
  /\ traces = EmptyTable
  /\ result = NoResult
  /\ pc = "start"

(* a call of one of the public wrappers, lines 143-154 *)
Reconstruct(op, step, method) ==
  /\ pc = "start"
  /\ result' = [op |-> op, step |-> step, method |-> method,
                out |-> _desurvey(collars, surveys, step, None, method)]
  /\ pc' = "done"
  /\ collars' = CallerTableAfter(collars, None)
  /\ surveys' = CallerTableAfter(surveys, None)
  /\ UNCHANGED <<assays, traces>>

minimum_curvature_desurvey ==
  \E step \in Steps : Reconstruct("minimum_curvature_desurvey", step, "minimum_curvature")

tangential_desurvey ==
  \E step \in Steps : Reconstruct("tangential_desurvey", step, "tangential")

balanced_tangential_desurvey ==
  \E step \in Steps :
     Reconstruct("balanced_tangential_desurvey", step, "balanced_tangential")

Next ==
  \/ minimum_curvature_desurvey
  \/ tangential_desurvey
  \/ balanced_tangential_desurvey

Spec == Init /\ [][Next]_vars

----------------------------------------------------------------------------
(* Position attachment: desurvey.py lines 157-208 *)

PosCols == {"md", "x", "y", "z", "azimuth", "dip"}

(* lines 164-169: df[alias_col] = df["hole_id"] when alias_col is missing *)
WithAlias(df, alias_col) ==
  IF alias_col \notin df.columns /\ "hole_id" \in df.columns
  THEN [columns |-> df.columns \cup {alias_col},
        rows |-> [i \in 1..Len(df.rows) |->
                    [c \in (DOMAIN df.rows[i]) \cup {alias_col} |->
                       IF c = alias_col THEN df.rows[i]["hole_id"]
                       ELSE df.rows[i][c]]]]
  ELSE df

(* a row extended by one column *)
WithColumn(r, name, value) ==
  [c \in (DOMAIN r) \cup {name} |-> IF c = name THEN value ELSE r[c]]

(* a row laid out on the columns cols; absent values are NaN (pd.concat) *)
Padded(r, cols) == [c \in cols |-> IF c \in DOMAIN r THEN r[c] ELSE NaN]

(* 0.5 * (from + to); halving is exact in binary floating point *)
MidMd(from, to) == IF IsNaN(from) \/ IsNaN(to) THEN NaN ELSE (from + to) \div 2

(* lines 171-174: traces with a hole id and a depth, ordered by hole and md *)
TracesSorted(rows, alias_col) ==
  LET kept == SelectSeq(rows, LAMBDA r : r[alias_col] # NoHole /\ ~IsNaN(r.md))
      by_md == SortedBy(kept, [i \in 1..Len(kept) |-> NumKey(kept[i].md)])
  IN SortedBy(by_md, [i \in 1..Len(by_md) |-> HoleKey(by_md[i][alias_col])])

(* lines 176-182: assays with a hole id, ordered by hole, from and to, with *)
(* the midpoint column added and the rows without a midpoint removed       *)
AssaysSorted(rows, alias_col) ==
  LET kept == SelectSeq(rows, LAMBDA r : r[alias_col] # NoHole)
      by_to == SortedBy(kept, [i \in 1..Len(kept) |-> NumKey(kept[i].to)])
      by_from == SortedBy(by_to, [i \in 1..Len(by_to) |-> NumKey(by_to[i].from)])
      by_hole == SortedBy(by_from,
                          [i \in 1..Len(by_from) |-> HoleKey(by_from[i][alias_col])])
      with_mid == [i \in 1..Len(by_hole) |->
                     WithColumn(by_hole[i], "mid_md",
                                MidMd(by_hole[i].from, by_hole[i].to))]
  IN SelectSeq(with_mid, LAMBDA r : ~IsNaN(r.mid_md))

(* groupby(alias_col, sort=False): the hole ids in order of first appearance *)
GroupOrder(rows, alias_col) ==
  LET firsts == SelectSeq([i \in 1..Len(rows) |-> i],
                          LAMBDA i : \A j \in 1..(i - 1) :
                                       rows[j][alias_col] # rows[i][alias_col])
  IN [k \in 1..Len(firsts) |-> rows[firsts[k]][alias_col]]

(* pd.merge_asof(direction="nearest") for one left key: the index in right  *)
(* (ordered by md) of the row matched to mid.  The backward candidate is   *)
(* the last row with md <= mid, the forward candidate the first row with   *)
(* md >= mid; the backward one wins unless the forward one is strictly     *)
(* nearer.                                                                 *)
NearestIndex_forward_ties(right, mid) ==
  LET back == {i \in 1..Len(right) : right[i].md <= mid}
      forw == {i \in 1..Len(right) : right[i].md >= mid}
      bi == CHOOSE i \in back : \A j \in back : j <= i
      fi == CHOOSE i \in forw : \A j \in forw : i <= j
  IN IF back # {} /\ forw # {}
     THEN IF mid - right[bi].md < right[fi].md - mid THEN bi ELSE fi
     ELSE IF back # {} THEN bi ELSE fi

NearestIndex(right, mid) ==
  LET back == {i \in 1..Len(right) : right[i].md <= mid}
      forw == {i \in 1..Len(right) : right[i].md >= mid}
      bi == CHOOSE i \in back : \A j \in back : j <= i
      fi == CHOOSE i \in forw : \A j \in forw : i <= j
  IN IF back # {} /\ forw # {}
     THEN IF mid - right[bi].md <= right[fi].md - mid THEN bi ELSE fi
     ELSE IF back # {} THEN bi ELSE fi

(* lines 190-203: the merged rows of one hole that has trace vertices *)
MergeAsof(group, tgroup, alias_col) ==
  LET left == SortedBy(group, [i \in 1..Len(group) |-> NumKey(group[i].mid_md)])
      right == SortedBy(tgroup, [i \in 1..Len(tgroup) |-> NumKey(tgroup[i].md)])
  IN [i \in 1..Len(left) |->
        LET v == right[NearestIndex(right, left[i].mid_md)]
            pos_cols == PosCols \cap DOMAIN v
        IN [c \in (DOMAIN left[i]) \cup pos_cols |->
              IF c \in DOMAIN left[i] THEN left[i][c] ELSE v[c]]]

GroupPart_drop_unmatched(group, tgroup, alias_col) ==
  IF Len(tgroup) = 0 THEN << >> ELSE MergeAsof(group, tgroup, alias_col)

(* lines 187-203: what one hole appends to merged_groups: its intervals as *)
(* they are when the hole has no vertex, the merged rows otherwise         *)
GroupPart(group, tgroup, alias_col) ==
  IF Len(tgroup) = 0 THEN group ELSE MergeAsof(group, tgroup, alias_col)

(* lines 184-204: the groups of the holes keys[k..], appended to merged *)
RECURSIVE MergedGroups(_, _, _, _, _, _)
MergedGroups(merged, keys, k, assays_sorted, traces_sorted, alias_col) ==
  IF k > Len(keys) THEN merged
  ELSE LET group == SelectSeq(assays_sorted, LAMBDA r : r[alias_col] = keys[k])
           tgroup == SelectSeq(traces_sorted, LAMBDA r : r[alias_col] = keys[k])
       IN MergedGroups(merged \o GroupPart(group, tgroup, alias_col), keys, k + 1,
                       assays_sorted, traces_sorted, alias_col)

(* pd.concat(merged_groups): the union of the columns, absent values NaN *)
Concat(rows) ==
  LET cols == UNION {DOMAIN rows[i] : i \in 1..Len(rows)}
  IN [columns |-> cols, rows |-> [i \in 1..Len(rows) |-> Padded(rows[i], cols)]]

(* The result is [raised, columns, rows].                                  *)
attach_assay_positions(assays_in, traces_in, hole_id_col) ==
  LET a == _canonicalize_hole_id(_frame(assays_in), hole_id_col)
      t == _canonicalize_hole_id(_frame(traces_in), hole_id_col)
      alias_col == ColumnMapGet(t.hole_id_col, t.hole_id_col)
  IN IF a.raised # "none"
     THEN [raised |-> a.raised, columns |-> {}, rows |-> << >>]
     ELSE IF t.raised # "none"
     THEN [raised |-> t.raised, columns |-> {}, rows |-> << >>]
     ELSE IF IsEmpty(a.df) \/ IsEmpty(t.df)
     THEN [raised |-> "none", columns |-> a.df.columns, rows |-> a.df.rows]
     ELSE LET traces_sorted == TracesSorted(WithAlias(t.df, alias_col).rows, alias_col)
              assays_sorted == AssaysSorted(WithAlias(a.df, alias_col).rows, alias_col)
              keys == GroupOrder(assays_sorted, alias_col)
          IN IF Len(keys) = 0
             THEN [raised |-> "none",
                   columns |-> a.df.columns \cup {alias_col, "mid_md"},
                   rows |-> assays_sorted]
             ELSE LET out == Concat(MergedGroups(<< >>, keys, 1, assays_sorted,
                                                 traces_sorted, alias_col))
                  IN [raised |-> "none", columns |-> out.columns, rows |-> out.rows]

----------------------------------------------------------------------------
(* Calls of attach_assay_positions on bounded interval and trace tables *)

AssayColumns == {"hole_id", "from", "to"}

AssayAt(h, from, to) == [hole_id |-> h, from |-> from, to |-> to]

(* intervals with midpoints 20, 14, 15 and 5, an interval without a from  *)
(* depth and an interval without a hole id                                 *)
AssayRows ==
  { AssayAt("A", 0, 40 * MdScale),
    AssayAt("A", 10 * MdScale, 18 * MdScale),
    AssayAt("A", 10 * MdScale, 20 * MdScale),
    AssayAt("A", NaN, 10 * MdScale),
    AssayAt("B", 0, 10 * MdScale),
    AssayAt(NoHole, 0, 10 * MdScale) }

AssayTables ==
  {[columns |-> AssayColumns, rows |-> rows] :
     rows \in UNION {[1..n -> AssayRows] : n \in 0..MaxIntervals}}

(* a vertex whose position and orientation identify its hole and depth *)
VertexAt(h, md) ==
  [hole_id |-> h, md |-> md,
   x |-> HoleRank(h) * PosScale, y |-> 0, z |-> md * (PosScale \div MdScale),
   azimuth |-> HoleRank(h) * 90 * AngScale, dip |-> 90 * AngScale]

VertexRows ==
  { VertexAt("A", 0), VertexAt("A", 10 * MdScale), VertexAt("A", 20 * MdScale),
    VertexAt("B", 10 * MdScale) }

(* a trace table as _desurvey returns it, the table without columns that  *)
(* _desurvey returns when it produced no vertex included                   *)
TraceTables ==
  {NoColumnsFrame}
  \cup {[columns |-> TraceColumns, rows |-> rows] :
          rows \in UNION {[1..n -> VertexRows] : n \in 0..MaxVertices}}

InitAttach ==
  /\ collars = EmptyTable
  /\ surveys = EmptyTable
  /\ assays \in AssayTables
  /\ traces \in TraceTables
  /\ result = NoResult
  /\ pc = "start"

AttachCall ==
  /\ pc = "start"
  /\ result' = [op |-> "attach_assay_positions", step |-> 0, method |-> "none",
                out |-> attach_assay_positions(assays, traces, None)]
  /\ pc' = "done"
  /\ assays' = CallerTableAfter(assays, None)
  /\ traces' = CallerTableAfter(traces, None)
  /\ UNCHANGED <<collars, surveys>>

NextAttach == AttachCall

SpecAttach == InitAttach /\ [][NextAttach]_vars

----------------------------------------------------------------------------
(* Vocabulary of the properties of reconstruction *)

Holes == {"A", "B"}

Done == pc = "done"

Returned == Done /\ result.out.raised = "none"

InputRows(t) == IF t = None THEN << >> ELSE t.rows

(* the output rows of hole h, in output order *)
OutRows(h) == SelectSeq(result.out.rows, LAMBDA r : r.hole_id = h)

(* the survey rows of hole h, in table order *)
StationsOf(h) == SelectSeq(InputRows(surveys), LAMBDA r : r.hole_id = h)

CollarsOf(h) == SelectSeq(InputRows(collars), LAMBDA r : r.hole_id = h)

StationMds(h) == {StationsOf(h)[i].from : i \in 1..Len(StationsOf(h))}

SetMin(S) == CHOOSE m \in S : \A n \in S : m <= n
SetMax(S) == CHOOSE m \in S : \A n \in S : m >= n

(* the next larger station depth after a *)
NextMd(D, a) == SetMin({b \in D : b > a})

(* the station with the smallest depth, the earliest row among equals *)
FirstStation(h) ==
  LET st == StationsOf(h)
      i == CHOOSE k \in 1..Len(st) :
             \A j \in 1..Len(st) :
               st[k].from < st[j].from \/ (st[k].from = st[j].from /\ k <= j)
  IN st[i]

MdStrictlyIncreasing(rows) ==
  \A i \in 1..(Len(rows) - 1) : rows[i].md < rows[i + 1].md

(* one first vertex plus ceil(delta / step) vertices for every pair of      *)
(* consecutive distinct station depths                                     *)
ExpectedVertexCount(D, step) ==
  1 + Cardinality({ak \in D \X (1..Ceil(SetMax(D) - SetMin(D), step)) :
                     /\ ak[1] # SetMax(D)
                     /\ ak[2] <= Ceil(NextMd(D, ak[1]) - ak[1], step)})

(* C1: within every hole the md values of the emitted vertices are strictly *)
(* increasing and start at the smallest station md; station pairs with     *)
(* delta_md <= 0 add no vertex, so the number of vertices is one plus      *)
(* ceil(delta_md / step) summed over the pairs of distinct depths.         *)
C1_MonotonicDepth ==
  Returned =>
    \A h \in Holes :
      LET rows == OutRows(h)
      IN /\ MdStrictlyIncreasing(rows)
         /\ rows # << >> =>
              /\ rows[1].md = SetMin(StationMds(h))
              /\ Len(rows) = ExpectedVertexCount(StationMds(h), result.step)

(* hole A has three stations that arrive unsorted with a duplicate depth   *)
(* and its trace has several vertices                                      *)
C1_Witness ==
  /\ Returned
  /\ Len(StationsOf("A")) = 3
  /\ StationsOf("A")[1].from > StationsOf("A")[2].from
  /\ StationsOf("A")[1].from = StationsOf("A")[3].from
  /\ Len(OutRows("A")) > 2

(* C2: collar (0,0,0), stations md=[0,100], azimuth=[0,0], dip=[-90,-90]    *)
(* and step=10 give exactly 11 vertices at md 0,10,...,100 with x=0, y=0,  *)
(* z = -md, azimuth=0 and dip=-90.                                         *)
C2_ExampleInput ==
  /\ collars # None
  /\ collars.rows = << CollarAt("A", 0, 0, 0) >>
  /\ surveys # None
  /\ surveys.rows = << [hole_id |-> "A", from |-> 0, azimuth |-> 0, dip |-> -900],
                       [hole_id |-> "A", from |-> 100 * MdScale, azimuth |-> 0, dip |-> -900] >>
  /\ Done
  /\ result.step = 10 * MdScale

C2_StraightDownExample ==
  C2_ExampleInput =>
    /\ result.out.raised = "none"
    /\ Len(result.out.rows) = 11
    /\ \A i \in 1..Len(result.out.rows) :
         LET v == result.out.rows[i]
         IN /\ v.md = (i - 1) * 10 * MdScale
            /\ v.x = 0
            /\ v.y = 0
            /\ v.z * MdScale = (-v.md) * PosScale
            /\ v.azimuth = 0
            /\ v.dip = -900

(* C3: the first vertex of every hole with at least one station has the    *)
(* collar's position, the first station's md and the first station's       *)
(* azimuth and dip; a hole with exactly one station yields exactly that    *)
(* one vertex.                                                             *)
C3_FirstVertex ==
  Returned =>
    \A h \in Holes :
      (Len(CollarsOf(h)) > 0 /\ Len(StationsOf(h)) > 0) =>
        LET rows == OutRows(h)
            collar == CollarsOf(h)[1]
            first == FirstStation(h)
        IN /\ Len(rows) >= 1
           /\ rows[1] = [hole_id |-> h, md |-> first.from,
                         x |-> collar.x, y |-> collar.y, z |-> collar.z,
                         azimuth |-> first.azimuth, dip |-> first.dip]
           /\ Len(StationsOf(h)) = 1 => Len(rows) = 1

(* hole A has one station below the collar depth zero and a collar away    *)
(* from the origin, and its trace is the single vertex at the collar       *)
C3_Witness ==
  /\ Returned
  /\ Len(StationsOf("A")) = 1
  /\ StationsOf("A")[1].from > 0
  /\ Len(CollarsOf("A")) > 0
  /\ CollarsOf("A")[1].x # 0
  /\ Len(OutRows("A")) = 1
  /\ OutRows("A")[1].x = CollarsOf("A")[1].x

(* C4: a hole with no survey stations yields zero trace vertices and       *)
(* reconstruction does not raise, whether the survey table is None, has no *)
(* columns, has no rows, or has no rows for that hole.                     *)
C4_ZeroStationHole ==
  Done =>
    \A h \in Holes :
      (Len(CollarsOf(h)) > 0 /\ Len(StationsOf(h)) = 0) =>
        /\ result.out.raised = "none"
        /\ OutRows(h) = << >>


(* the vertices of hole h whose md lies in (a, b] *)
VerticesWithin(h, a, b) == SelectSeq(OutRows(h), LAMBDA v : a < v.md /\ v.md <= b)

(* the pairs (a, b) of consecutive distinct station depths of hole h *)
StationPairs(h) ==
  {ab \in StationMds(h) \X StationMds(h) :
     ab[1] < ab[2] /\ ~\E c \in StationMds(h) : ab[1] < c /\ c < ab[2]}

(* C5: every station pair (s0, s1) with delta_md > 0 yields exactly         *)
(* ceil(delta_md / step) vertices, spaced by delta_md / segment_steps, the *)
(* last of which has md exactly s1.md.                                     *)
C5_SegmentSubdivision ==
  Returned =>
    \A h \in Holes :
      Len(CollarsOf(h)) > 0 =>
        \A ab \in StationPairs(h) :
          LET n == Ceil(ab[2] - ab[1], result.step)
              vs == VerticesWithin(h, ab[1], ab[2])
          IN /\ Len(vs) = n
             /\ \A k \in 1..Len(vs) :
                  n * vs[k].md = n * ab[1] + k * (ab[2] - ab[1])
             /\ vs[Len(vs)].md = ab[2]

(* all stations of hole h share one azimuth and one dip *)
StraightHole(h) ==
  /\ Len(StationsOf(h)) > 0
  /\ \A i \in 1..Len(StationsOf(h)) :
       /\ StationsOf(h)[i].azimuth = StationsOf(h)[1].azimuth
       /\ StationsOf(h)[i].dip = StationsOf(h)[1].dip

Positions(rows) == [i \in 1..Len(rows) |-> << rows[i].md, rows[i].x, rows[i].y, rows[i].z >>]

(* C6: when all stations of a hole share azimuth and dip, every vertex lies *)
(* at collar + (md - first md) * direction_cosines(azimuth, dip), the      *)
(* ratio factor is exactly 1, and the three methods give the same          *)
(* positions.                                                              *)
C6_StraightHoleAgreement ==
  Returned =>
    \A h \in Holes :
      (Len(CollarsOf(h)) > 0 /\ StraightHole(h)) =>
        LET collar == CollarsOf(h)[1]
            first == FirstStation(h)
            dc == _direction_cosines(first.azimuth, first.dip)
            rows == OutRows(h)
        IN /\ RatioFactor(Dogleg(dc, dc)) = RfScale
           /\ \A i \in 1..Len(rows) :
                LET run == rows[i].md - first.from
                IN /\ rows[i].x = collar.x + run * dc.ca * (PosScale \div (MdScale * TrigScale))
                   /\ rows[i].y = collar.y + run * dc.cb * (PosScale \div (MdScale * TrigScale))
                   /\ rows[i].z = collar.z + run * dc.cc * (PosScale \div (MdScale * TrigScale))
           /\ \A m \in Methods :
                Positions(SelectSeq(_desurvey(collars, surveys, result.step, None, m).rows,
                                    LAMBDA r : r.hole_id = h))
                  = Positions(rows)

(* hole A is inclined, has stations at two depths with one orientation and  *)
(* a collar away from the origin, and was integrated by minimum curvature  *)
C6_Witness ==
  /\ Returned
  /\ result.method = "minimum_curvature"
  /\ StraightHole("A")
  /\ StationsOf("A")[1].azimuth = 900
  /\ Cardinality(StationMds("A")) >= 2
  /\ Len(CollarsOf("A")) > 0
  /\ CollarsOf("A")[1].x # 0
  /\ Len(OutRows("A")) > 2

----------------------------------------------------------------------------
(* Vocabulary of the properties of attachment *)

AttachDone == pc = "done" /\ result.op = "attach_assay_positions"

AttachReturned == AttachDone /\ result.out.raised = "none"

(* the trace table is a table of vertices: it has the hole id column *)
TraceTableGiven == "hole_id" \in traces.columns

(* an interval row that passes the precondition filter *)
ValidInterval(r) == r.hole_id # NoHole /\ ~IsNaN(r.from) /\ ~IsNaN(r.to)

(* how many rows of the sequence rows are the interval from..to of hole h *)
CountOf(rows, h, from, to) ==
  Cardinality({i \in 1..Len(rows) :
                 rows[i].hole_id = h /\ rows[i].from = from /\ rows[i].to = to})

(* the vertices of hole h in the input trace table *)
VerticesOf(h) ==
  IF "hole_id" \in traces.columns
  THEN SelectSeq(traces.rows, LAMBDA v : v.hole_id = h /\ ~IsNaN(v.md))
  ELSE << >>

(* every valid input interval occurs in the output as often as in the input *)
ValidIntervalsKept ==
  \A i \in 1..Len(assays.rows) :
     ValidInterval(assays.rows[i]) =>
        LET r == assays.rows[i]
        IN CountOf(result.out.rows, r.hole_id, r.from, r.to) =
             CountOf(assays.rows, r.hole_id, r.from, r.to)

(* the position and orientation fields of the output row r are null *)
PositionNull(r) ==
  \A c \in PosCols : c \notin result.out.columns \/ IsNaN(r[c])

(* C7: for every interval table and every trace table with a hole id      *)
(* column, the empty one included, the call returns as many rows as the    *)
(* input has intervals with a hole id, a from and a to, and each such      *)
(* interval exactly as often as it occurs in the input.                    *)
C7_LosslessJoin ==
  (AttachDone /\ TraceTableGiven) =>
     /\ result.out.raised = "none"
     /\ Len(result.out.rows) =
          Cardinality({i \in 1..Len(assays.rows) : ValidInterval(assays.rows[i])})
     /\ ValidIntervalsKept

(* C8: every interval of a hole with trace vertices is in the output, and  *)
(* its md, x, y, z, azimuth and dip are those of a vertex of the same hole *)
(* at the least distance from mid = 0.5 * (from + to), the one with the    *)
(* smaller md when two vertices are equally distant.                       *)
C8_NearestVertex ==
  AttachReturned =>
     /\ \A i \in 1..Len(assays.rows) :
          LET a == assays.rows[i]
          IN (ValidInterval(a) /\ Len(VerticesOf(a.hole_id)) > 0) =>
                CountOf(result.out.rows, a.hole_id, a.from, a.to) =
                  CountOf(assays.rows, a.hole_id, a.from, a.to)
     /\ \A i \in 1..Len(result.out.rows) :
          LET r == result.out.rows[i]
              V == VerticesOf(r.hole_id)
              mid == MidMd(r.from, r.to)
          IN Len(V) > 0 =>
               /\ r.mid_md = mid
               /\ \E k \in 1..Len(V) :
                    /\ \A c \in PosCols : r[c] = V[k][c]
                    /\ \A j \in 1..Len(V) :
                         \/ Abs(V[k].md - mid) < Abs(V[j].md - mid)
                         \/ /\ Abs(V[k].md - mid) = Abs(V[j].md - mid)
                            /\ V[k].md <= V[j].md

(* the trace of hole A has vertices at md 0, 10 and 20; the interval with  *)
(* mid 14 and the interval with mid 15 both carry the vertex at md 10      *)
C8_Witness ==
  /\ AttachReturned
  /\ {VerticesOf("A")[k].md : k \in 1..Len(VerticesOf("A"))} =
       {0, 10 * MdScale, 20 * MdScale}
  /\ Len(result.out.rows) = 2
  /\ "mid_md" \in result.out.columns
  /\ result.out.rows[1].mid_md = 14 * MdScale
  /\ result.out.rows[1].md = 10 * MdScale
  /\ result.out.rows[2].mid_md = 15 * MdScale
  /\ result.out.rows[2].md = 10 * MdScale
  /\ result.out.rows[2].z = 10 * PosScale

(* the index of the first input interval of hole h *)
FirstAppearance(h) ==
  SetMin({i \in 1..Len(assays.rows) : assays.rows[i].hole_id = h})

(* C9: the output rows are grouped by hole in the order in which the holes *)
(* first appear in the interval table, and the rows of one hole, with or   *)
(* without trace vertices, are in ascending midpoint order.                *)
C9_OutputOrder ==
  AttachReturned =>
     \A i, j \in 1..Len(result.out.rows) :
        LET r == result.out.rows[i]
            q == result.out.rows[j]
        IN (i < j /\ ValidInterval(r) /\ ValidInterval(q)) =>
              IF r.hole_id = q.hole_id
              THEN MidMd(r.from, r.to) <= MidMd(q.from, q.to)
              ELSE FirstAppearance(r.hole_id) < FirstAppearance(q.hole_id)

----------------------------------------------------------------------------
(* Independence of the holes *)

ReconstructDone ==
  Done /\ result.op \in {"minimum_curvature_desurvey", "tangential_desurvey",
                         "balanced_tangential_desurvey"}

(* the table with the rows of hole h only *)
OnlyHole(table, h) ==
  IF table = None THEN None
  ELSE [columns |-> table.columns,
        rows |-> SelectSeq(table.rows, LAMBDA r : r.hole_id = h)]

(* the rows of hole h in a returned table, in output order *)
RowsOfHole(out, h) == SelectSeq(out.rows, LAMBDA r : r.hole_id = h)

(* the interval and position fields of the attached rows of hole h; a     *)
(* column that the output does not have reads as null                     *)
AttachedOfHole(out, h) ==
  LET rows == RowsOfHole(out, h)
  IN [i \in 1..Len(rows) |-> Padded(rows[i], AssayColumns \cup PosCols)]

(* the trace rows of every hole are those that reconstruction emits when  *)
(* the collar and survey tables hold the rows of that hole only           *)
ReconstructionIndependent ==
  ReconstructDone =>
     \A h \in Holes :
        LET alone == _desurvey(OnlyHole(collars, h), OnlyHole(surveys, h),
                               result.step, None, result.method)
        IN /\ alone.raised = result.out.raised
           /\ RowsOfHole(alone, h) = RowsOfHole(result.out, h)

(* the attached rows of every hole are those that attachment emits when   *)
(* the interval and trace tables hold the rows of that hole only          *)
AttachmentIndependent ==
  AttachDone =>
     \A h \in Holes :
        LET alone == attach_assay_positions(OnlyHole(assays, h),
                                            OnlyHole(traces, h), None)
        IN /\ alone.raised = result.out.raised
           /\ AttachedOfHole(alone, h) = AttachedOfHole(result.out, h)

(* C12: the rows emitted for a hole, by reconstruction and by attachment, *)
(* depend only on the rows of that hole in the input tables: removing the *)
(* rows of every other hole leaves them as they are.                      *)
C12_HoleIndependence == ReconstructionIndependent /\ AttachmentIndependent

----------------------------------------------------------------------------
(* Compositing: composite.py lines 28-50.  A value is a whole number; the  *)
(* value of a "sum" bin is in units of 1/MdScale, the value of an          *)
(* "average" bin in units of 1/WeightScale.                                *)

MaxSources == 3

RECURSIVE SumSeq(_)
SumSeq(s) == IF Len(s) = 0 THEN 0 ELSE s[1] + SumSeq(Tail(s))

(* np.arange(start, stop, step): the ceil((stop - start) / step) values    *)
(* start + i * step                                                        *)
np_arange(start, stop, step) ==
  LET n == Max(0, Ceil(stop - start, step))
  IN [i \in 1..n |-> start + (i - 1) * step]

(* line 40: the rows of the group that overlap the bin *)
Window(group, from_col, to_col, c_from, c_to) ==
  SelectSeq(group, LAMBDA r : r[from_col] < c_to /\ r[to_col] > c_from)

OverlapLen_whole_interval(r, from_col, to_col, c_from, c_to) ==
  Max(0, r[to_col] - r[from_col])

(* line 43: the length of the part of the row inside the bin *)
OverlapLen(r, from_col, to_col, c_from, c_to) ==
  Max(0, Min(r[to_col], c_to) - Max(r[from_col], c_from))

(* lines 43-48: the value of the bin.  With a total overlap of 0 the       *)
(* weights are 0/0 = NaN and sum() skips the NaN products; the product of  *)
(* a missing value (NaN) is NaN and is skipped by sum() as well, and the   *)
(* weights of the other rows stay as they are.                             *)
BinValue(window, value_col, from_col, to_col, c_from, c_to, method) ==
  LET n == Len(window)
      overlap_len == [i \in 1..n |->
                        OverlapLen(window[i], from_col, to_col, c_from, c_to)]
      total == SumSeq(overlap_len)
      weights == [i \in 1..n |-> Round(overlap_len[i] * WeightScale, total)]
      product(i, w) == IF window[i][value_col] = NaN THEN 0
                       ELSE window[i][value_col] * w
  IN IF method = "sum"
     THEN SumSeq([i \in 1..n |-> product(i, overlap_len[i])])
     ELSE IF total = 0 THEN 0
     ELSE SumSeq([i \in 1..n |-> product(i, weights[i])])

BinEmitted_zero_filled(window) == TRUE

(* lines 41-42: a bin without overlapping rows is skipped *)
BinEmitted(window) == Len(window) > 0

(* lines 34-49: the composites of one hole *)
CompositeHole(group, hole_id, value_col, from_col, to_col, length, method) ==
  LET start == SetMin({group[i][from_col] : i \in 1..Len(group)})
      end == SetMax({group[i][to_col] : i \in 1..Len(group)})
      bins == np_arange(start, end + length, length)
      window(i) == Window(group, from_col, to_col, bins[i], bins[i + 1])
      kept == SelectSeq([i \in 1..(Len(bins) - 1) |-> i],
                        LAMBDA i : BinEmitted(window(i)))
  IN [k \in 1..Len(kept) |->
        LET i == kept[k]
        IN ("hole_id" :> hole_id) @@ (from_col :> bins[i])
           @@ (to_col :> bins[i + 1])
           @@ (value_col :> BinValue(window(i), value_col, from_col, to_col,
                                     bins[i], bins[i + 1], method))]

(* lines 31-33: the holes keys[k..] in turn, each sorted by from *)
RECURSIVE CompositeLoop(_, _, _, _, _, _, _, _, _)
CompositeLoop(composites, keys, k, df, value_col, from_col, to_col, length, method) ==
  IF k > Len(keys) THEN composites
  ELSE LET rows == SelectSeq(df.rows, LAMBDA r : r.hole_id = keys[k])
           group == SortedBy(rows, [i \in 1..Len(rows) |-> NumKey(rows[i][from_col])])
       IN CompositeLoop(composites \o CompositeHole(group, keys[k], value_col,
                                                    from_col, to_col, length, method),
                        keys, k + 1, df, value_col, from_col, to_col, length, method)

(* The result is [raised, columns, rows]; pd.DataFrame([]) has no column. *)
composite_intervals(df, value_col, from_col, to_col, length, method) ==
  IF IsEmpty(df)
  THEN [raised |-> "none", columns |-> df.columns, rows |-> df.rows]
  ELSE LET rows == CompositeLoop(<< >>, GroupKeys(df), 1, df, value_col,
                                 from_col, to_col, length, method)
       IN [raised |-> "none",
           columns |-> IF Len(rows) = 0 THEN {}
                       ELSE {"hole_id", from_col, to_col, value_col},
           rows |-> rows]

----------------------------------------------------------------------------
(* Calls of composite_intervals on bounded interval tables *)

SourceColumns == {"hole_id", "from", "to", "grade"}

SourceAt(h, from, to, grade) ==
  [hole_id |-> h, from |-> from * MdScale, to |-> to * MdScale, grade |-> grade]

(* intervals of hole A that abut (0-10, 10-20), overlap (5-15), leave a    *)
(* gap (30-40) and end off the grid of 10 (20-25); two intervals of hole B *)
SourceRows ==
  { SourceAt("A", 0, 10, 2), SourceAt("A", 10, 20, 4), SourceAt("A", 5, 15, 6),
    SourceAt("A", 30, 40, 8), SourceAt("A", 20, 25, 1),
    SourceAt("B", 0, 20, 3), SourceAt("B", 10, 15, 5) }

SourceTables ==
  {[columns |-> SourceColumns, rows |-> rows] :
     rows \in UNION {[1..n -> SourceRows] : n \in 0..MaxSources}}

(* bin lengths 5.0 and 10.0 *)
Lengths == {5 * MdScale, 10 * MdScale}

CompositeMethods == {"average", "sum"}

InitComposite ==
  /\ collars = EmptyTable
  /\ surveys = EmptyTable
  /\ assays \in SourceTables
  /\ traces = EmptyTable
  /\ result = NoResult
  /\ pc = "start"

CompositeCall ==
  /\ pc = "start"
  /\ \E length \in Lengths, method \in CompositeMethods :
        result' = [op |-> "composite_intervals", step |-> length, method |-> method,
                   out |-> composite_intervals(assays, "grade", "from", "to",
                                               length, method)]
  /\ pc' = "done"
  /\ UNCHANGED <<collars, surveys, assays, traces>>

NextComposite == CompositeCall

SpecComposite == InitComposite /\ [][NextComposite]_vars

----------------------------------------------------------------------------
(* Properties of compositing *)

CompositeDone == pc = "done" /\ result.op = "composite_intervals"

(* the source intervals of hole h *)
SourcesOf(h) == SelectSeq(assays.rows, LAMBDA r : r.hole_id = h)

(* the composites emitted for hole h *)
BinsOf(h) == SelectSeq(result.out.rows, LAMBDA r : r.hole_id = h)

RangeStart(h) == SetMin({SourcesOf(h)[i].from : i \in 1..Len(SourcesOf(h))})

RangeEnd(h) == SetMax({SourcesOf(h)[i].to : i \in 1..Len(SourcesOf(h))})

(* bins of size length tile [min(from), max(to)] of hole h exactly *)
Tiles(h, length) == (RangeEnd(h) - RangeStart(h)) % length = 0

(* two source intervals of hole h overlap each other *)
SourcesOverlap(h) ==
  \E i, j \in 1..Len(SourcesOf(h)) :
     /\ i # j
     /\ SourcesOf(h)[i].from < SourcesOf(h)[j].to
     /\ SourcesOf(h)[j].from < SourcesOf(h)[i].to

(* C13: with method "sum", for every hole whose depth range is tiled       *)
(* exactly by bins of size length, the bin values add up to the sum of     *)
(* value * (to - from) over the source intervals of the hole, with gaps    *)
(* and with overlapping source intervals alike.                            *)
C13_SumConservation ==
  (CompositeDone /\ result.method = "sum") =>
     \A h \in Holes :
        (Len(SourcesOf(h)) > 0 /\ Tiles(h, result.step)) =>
           SumSeq([i \in 1..Len(BinsOf(h)) |-> BinsOf(h)[i].grade]) =
             SumSeq([i \in 1..Len(SourcesOf(h)) |->
                       SourcesOf(h)[i].grade
                         * (SourcesOf(h)[i].to - SourcesOf(h)[i].from)])

(* hole A has overlapping intervals and a gap of at least one bin, its     *)
(* range is tiled exactly, and several bins were summed                    *)
C13_Witness ==
  /\ CompositeDone
  /\ result.method = "sum"
  /\ Len(SourcesOf("A")) > 0
  /\ Tiles("A", result.step)
  /\ SourcesOverlap("A")
  /\ Len(BinsOf("A")) > 1
  /\ Len(BinsOf("A")) * result.step < RangeEnd("A") - RangeStart("A")

(* the source intervals of hole h that overlap [c_from, c_to) *)
Overlapping(h, c_from, c_to) ==
  SelectSeq(SourcesOf(h), LAMBDA r : r.from < c_to /\ r.to > c_from)

(* the overlap length min(to, bin_to) - max(from, bin_from) *)
OverlapOf(r, c_from, c_to) == Min(r.to, c_to) - Max(r.from, c_from)

(* v, in units of 1/WeightScale, is the average of the grades of the rows  *)
(* weighted by their overlap with the bin, up to the rounding of one       *)
(* weight per row                                                          *)
IsWeightedAverage(v, rows, c_from, c_to) ==
  LET n == Len(rows)
      total == SumSeq([i \in 1..n |-> OverlapOf(rows[i], c_from, c_to)])
      weighted == SumSeq([i \in 1..n |->
                            rows[i].grade * OverlapOf(rows[i], c_from, c_to)])
      grades == SumSeq([i \in 1..n |-> rows[i].grade])
  IN 2 * Abs(v * total - WeightScale * weighted) <= total * grades

----------------------------------------------------------------------------
(* Resampling: composite.py lines 53-68.  Coordinates of the tables that   *)
(* are resampled are in units of 1/MdScale.                                *)

EASTING == "easting"
NORTHING == "northing"
ELEVATION == "elevation"

(* np.interp(x, xp, fp) for increasing xp: fp[1] at or before xp[1], the   *)
(* last fp at or after the last xp, and between two neighbours             *)
(* slope * (x - xp[j]) + fp[j]                                             *)
np_interp(x, xp, fp) ==
  LET n == Len(xp)
  IN IF x <= xp[1] THEN fp[1]
     ELSE IF x >= xp[n] THEN fp[n]
     ELSE LET j == CHOOSE i \in 1..(n - 1) : xp[i] <= x /\ x < xp[i + 1]
          IN Round((fp[j + 1] - fp[j]) * (x - xp[j]), xp[j + 1] - xp[j]) + fp[j]

(* line 62: the md grid of one hole *)
SampleMds(start, end, step) == np_arange(start, end + step, step)

(* lines 58-67: the resampled rows of one hole *)
ResampleHole(group, hole_id, step) ==
  LET group_sorted == SortedBy(group, [i \in 1..Len(group) |-> NumKey(group[i].md)])
      mds == [i \in 1..Len(group_sorted) |-> group_sorted[i].md]
      sample_mds == SampleMds(SetMin({mds[i] : i \in 1..Len(mds)}),
                              SetMax({mds[i] : i \in 1..Len(mds)}), step)
      values(col) == [i \in 1..Len(group_sorted) |-> group_sorted[i][col]]
  IN [k \in 1..Len(sample_mds) |->
        ("hole_id" :> hole_id) @@ ("md" :> sample_mds[k])
        @@ (EASTING :> np_interp(sample_mds[k], mds, values(EASTING)))
        @@ (NORTHING :> np_interp(sample_mds[k], mds, values(NORTHING)))
        @@ (ELEVATION :> np_interp(sample_mds[k], mds, values(ELEVATION)))]

(* line 57: the holes keys[k..] in turn *)
RECURSIVE ResampleLoop(_, _, _, _, _)
ResampleLoop(resampled, keys, k, trace_df, step) ==
  IF k > Len(keys) THEN resampled
  ELSE LET group == SelectSeq(trace_df.rows, LAMBDA r : r.hole_id = keys[k])
       IN ResampleLoop(resampled \o ResampleHole(group, keys[k], step),
                       keys, k + 1, trace_df, step)

(* The result is [raised, columns, rows].  A table without the easting,    *)
(* northing or elevation column fails on the column lookup of lines 63-65. *)
resample_trace(trace_df, step) ==
  IF IsEmpty(trace_df)
  THEN [raised |-> "none", columns |-> trace_df.columns, rows |-> trace_df.rows]
  ELSE IF Len(GroupKeys(trace_df)) > 0
          /\ ~({EASTING, NORTHING, ELEVATION} \subseteq trace_df.columns)
  THEN [raised |-> "KeyError", columns |-> {}, rows |-> << >>]
  ELSE LET rows == ResampleLoop(<< >>, GroupKeys(trace_df), 1, trace_df, step)
       IN [raised |-> "none",
           columns |-> IF Len(rows) = 0 THEN {}
                       ELSE {"hole_id", "md", EASTING, NORTHING, ELEVATION},
           rows |-> rows]

----------------------------------------------------------------------------
(* Calls of resample_trace on bounded trace tables *)

ResampleColumns == {"hole_id", "md", EASTING, NORTHING, ELEVATION}

(* a vertex of a path that bends at md 10 *)
PathVertex(h, md) ==
  [hole_id |-> h, md |-> md * MdScale,
   easting |-> HoleRank(h) * 100 * MdScale + Min(md, 10) * MdScale,
   northing |-> Max(0, md - 10) * 3 * MdScale,
   elevation |-> -(md * MdScale)]

PathVertices ==
  { PathVertex("A", 0), PathVertex("A", 10), PathVertex("A", 20),
    PathVertex("A", 25), PathVertex("B", 5) }

(* tables of distinct vertices in any order, and the trace that            *)
(* reconstruction returns, which names its coordinates x, y and z          *)
ResampleTables ==
  {[columns |-> TraceColumns, rows |-> << VertexAt("A", 0), VertexAt("A", 10 * MdScale) >>]}
  \cup {[columns |-> ResampleColumns, rows |-> rows] :
          rows \in {s \in UNION {[1..n -> PathVertices] : n \in 0..MaxVertices} :
                      \A i, j \in 1..Len(s) : i # j => s[i] # s[j]}}

(* grid spacings 5.0 and 10.0 *)
ResampleSteps == {5 * MdScale, 10 * MdScale}

InitResample ==
  /\ collars = EmptyTable
  /\ surveys = EmptyTable
  /\ assays = EmptyTable
  /\ traces \in ResampleTables
  /\ result = NoResult
  /\ pc = "start"

ResampleCall ==
  /\ pc = "start"
  /\ \E step \in ResampleSteps :
        result' = [op |-> "resample_trace", step |-> step, method |-> "none",
                   out |-> resample_trace(traces, step)]
  /\ pc' = "done"
  /\ UNCHANGED <<collars, surveys, assays, traces>>

NextResample == ResampleCall

SpecResample == InitResample /\ [][NextResample]_vars

----------------------------------------------------------------------------
(* Properties of resampling *)

ResampleDone == pc = "done" /\ result.op = "resample_trace"

(* the vertices of hole h in the trace table that was resampled *)
TraceOf(h) == SelectSeq(traces.rows, LAMBDA r : r.hole_id = h)

TraceMds(h) == {TraceOf(h)[i].md : i \in 1..Len(TraceOf(h))}

(* the resampled rows of hole h *)
ResampledOf(h) == SelectSeq(result.out.rows, LAMBDA r : r.hole_id = h)

(* C15: a hole whose trace has fewer than 2 vertices has no row in the     *)
(* output of resample_trace.                                               *)
C15_FewerThanTwoVertices ==
  (ResampleDone /\ result.out.raised = "none") =>
     \A h \in Holes : Len(TraceOf(h)) < 2 => Len(ResampledOf(h)) = 0

(* the value at md of the polyline through the vertices of hole h, for a   *)
(* md between the least and the greatest vertex md                         *)
LinearAt(h, col, md) ==
  LET below == SetMax({m \in TraceMds(h) : m <= md})
      above == SetMin({m \in TraceMds(h) : m >= md})
      at(m) == (CHOOSE i \in 1..Len(TraceOf(h)) : TraceOf(h)[i].md = m)
      lo == TraceOf(h)[at(below)][col]
      hi == TraceOf(h)[at(above)][col]
  IN IF above = below THEN lo
     ELSE lo + Round((hi - lo) * (md - below), above - below)

(* the emitted md values of hole h are min_md, min_md + step, ... *)
GridFromMin(h) ==
  \A k \in 1..Len(ResampledOf(h)) :
     ResampledOf(h)[k].md = SetMin(TraceMds(h)) + (k - 1) * result.step

(* the emitted md values of hole h lie within [min_md, max_md] *)
GridWithinTrace(h) ==
  \A k \in 1..Len(ResampledOf(h)) :
     /\ ResampledOf(h)[k].md >= SetMin(TraceMds(h))
     /\ ResampledOf(h)[k].md <= SetMax(TraceMds(h))

(* the emitted coordinates at the md values within the trace are the       *)
(* linear interpolation of the vertices                                    *)
InterpolatedWithinTrace(h) ==
  \A k \in 1..Len(ResampledOf(h)) :
     ResampledOf(h)[k].md <= SetMax(TraceMds(h)) =>
        \A col \in {EASTING, NORTHING, ELEVATION} :
           ResampledOf(h)[k][col] = LinearAt(h, col, ResampledOf(h)[k].md)

(* C16: for every hole the emitted md values are min_md, min_md + step,    *)
(* ..., all of them within [min_md, max_md] of the trace of the hole, and  *)
(* the emitted coordinates are the linear interpolation of the vertices    *)
(* at these md values.                                                     *)
C16_UniformGrid ==
  (ResampleDone /\ result.out.raised = "none") =>
     \A h \in Holes :
        Len(TraceOf(h)) > 0 =>
           /\ GridFromMin(h)
           /\ GridWithinTrace(h)
           /\ InterpolatedWithinTrace(h)

(* what resampling does keep: the grid starts at min_md with spacing step  *)
(* and stops before max_md + step, with interpolated coordinates up to     *)
(* max_md and the coordinates of the last vertex beyond it                 *)
GridAsEmitted ==
  (ResampleDone /\ result.out.raised = "none") =>
     \A h \in Holes :
        Len(TraceOf(h)) > 0 =>
           /\ GridFromMin(h)
           /\ InterpolatedWithinTrace(h)
           /\ Len(ResampledOf(h)) =
                Ceil(SetMax(TraceMds(h)) - SetMin(TraceMds(h)), result.step) + 1

----------------------------------------------------------------------------
(* Validation: validate.py lines 27-51.  The result of a validator is the  *)
(* list of its issue records.                                              *)

IssueOf(hole_id, type, row) == [hole_id |-> hole_id, type |-> type, row |-> row]

NoPrevTo == [is_none |-> TRUE, value |-> 0]

RowIssues_first_problem_only(row, hole_id, prev_to, from_col, to_col) ==
  LET f == row[from_col]
      t == row[to_col]
  IN IF IsNaN(f) \/ IsNaN(t) THEN << IssueOf(hole_id, "missing_depth", row) >>
     ELSE IF t <= f THEN << IssueOf(hole_id, "non_positive_length", row) >>
     ELSE IF ~prev_to.is_none /\ f < prev_to.value
     THEN << IssueOf(hole_id, "overlap", row) >>
     ELSE << >>

(* lines 32-40: the issues of one row *)
RowIssues(row, hole_id, prev_to, from_col, to_col) ==
  LET f == row[from_col]
      t == row[to_col]
  IN IF IsNaN(f) \/ IsNaN(t) THEN << IssueOf(hole_id, "missing_depth", row) >>
     ELSE (IF t <= f THEN << IssueOf(hole_id, "non_positive_length", row) >>
           ELSE << >>)
          \o (IF ~prev_to.is_none /\ f < prev_to.value
              THEN << IssueOf(hole_id, "overlap", row) >> ELSE << >>)

(* lines 36, 41: prev_to after the row; a row with a missing depth leaves  *)
(* it as it is                                                             *)
PrevToAfter(row, prev_to, from_col, to_col) ==
  IF IsNaN(row[from_col]) \/ IsNaN(row[to_col]) THEN prev_to
  ELSE [is_none |-> FALSE, value |-> row[to_col]]

(* lines 31-41: the rows i.. of one hole, in ascending order of from *)
RECURSIVE IntervalIssues(_, _, _, _, _, _, _)
IntervalIssues(issues, rows, i, prev_to, hole_id, from_col, to_col) ==
  IF i > Len(rows) THEN issues
  ELSE IntervalIssues(issues \o RowIssues(rows[i], hole_id, prev_to, from_col, to_col),
                      rows, i + 1, PrevToAfter(rows[i], prev_to, from_col, to_col),
                      hole_id, from_col, to_col)

(* IntervalHoles with the rows of a hole taken in table order *)
RECURSIVE IntervalHoles_table_order(_, _, _, _, _, _)
IntervalHoles_table_order(issues, keys, k, df, from_col, to_col) ==
  IF k > Len(keys) THEN issues
  ELSE LET group == SelectSeq(df.rows, LAMBDA r : r.hole_id = keys[k])
       IN IntervalHoles_table_order(
            IntervalIssues(issues, group, 1, NoPrevTo, keys[k], from_col, to_col),
            keys, k + 1, df, from_col, to_col)

(* lines 29-31: the holes keys[k..] in turn *)
RECURSIVE IntervalHoles(_, _, _, _, _, _)
IntervalHoles(issues, keys, k, df, from_col, to_col) ==
  IF k > Len(keys) THEN issues
  ELSE LET group == SelectSeq(df.rows, LAMBDA r : r.hole_id = keys[k])
           sorted == SortedBy(group, [i \in 1..Len(group) |-> NumKey(group[i][from_col])])
       IN IntervalHoles(IntervalIssues(issues, sorted, 1, NoPrevTo, keys[k],
                                       from_col, to_col),
                        keys, k + 1, df, from_col, to_col)

validate_intervals(df, from_col, to_col) ==
  IntervalHoles(<< >>, GroupKeys(df), 1, df, from_col, to_col)

is_monotonic_increasing_strict(depths) ==
  \A i \in 1..(Len(depths) - 1) : depths[i] < depths[i + 1]

(* pandas Series.is_monotonic_increasing: every value is at least the one  *)
(* before it                                                               *)
is_monotonic_increasing(depths) ==
  \A i \in 1..(Len(depths) - 1) : depths[i] <= depths[i + 1]

(* lines 47-50: the holes keys[k..] in turn, the depths in table order *)
RECURSIVE SurveyIssues(_, _, _, _, _)
SurveyIssues(issues, keys, k, df, depth_col) ==
  IF k > Len(keys) THEN issues
  ELSE LET group == SelectSeq(df.rows, LAMBDA r : r.hole_id = keys[k])
           depths == [i \in 1..Len(group) |-> group[i][depth_col]]
       IN SurveyIssues(IF is_monotonic_increasing(depths) THEN issues
                       ELSE Append(issues, [hole_id |-> keys[k],
                                            type |-> "non_monotonic_survey"]),
                       keys, k + 1, df, depth_col)

validate_surveys(df, depth_col) ==
  SurveyIssues(<< >>, GroupKeys(df), 1, df, depth_col)

----------------------------------------------------------------------------
(* Calls of the validators on bounded tables *)

(* intervals that abut, overlap, have no length, lack a depth or a hole id *)
CheckedRows ==
  { AssayAt("A", 0, 10 * MdScale), AssayAt("A", 10 * MdScale, 20 * MdScale),
    AssayAt("A", 5 * MdScale, 15 * MdScale), AssayAt("A", 5 * MdScale, 5 * MdScale),
    AssayAt("A", NaN, 10 * MdScale), AssayAt("B", 0, 10 * MdScale),
    AssayAt(NoHole, 0, 10 * MdScale) }

CheckedIntervalTables ==
  {[columns |-> AssayColumns, rows |-> rows] :
     rows \in UNION {[1..n -> CheckedRows] : n \in 0..MaxIntervals}}

StationAt(h, md) == [hole_id |-> h, from |-> md * MdScale, azimuth |-> 0, dip |-> -900]

CheckedStations ==
  { StationAt("A", 0), StationAt("A", 50), StationAt("A", 100), StationAt("B", 50) }

CheckedSurveyTables ==
  {[columns |-> SurveyColumns, rows |-> rows] :
     rows \in UNION {[1..n -> CheckedStations] : n \in 0..MaxStations}}

InitValidate ==
  /\ collars = EmptyTable
  /\ \/ assays \in CheckedIntervalTables /\ surveys = EmptyTable
     \/ assays = EmptyTable /\ surveys \in CheckedSurveyTables
  /\ traces = EmptyTable
  /\ result = NoResult
  /\ pc = "start"

ValidateIntervalsCall ==
  /\ pc = "start"
  /\ result' = [op |-> "validate_intervals", step |-> 0, method |-> "none",
                out |-> [raised |-> "none", columns |-> {"hole_id", "type", "row"},
                         rows |-> validate_intervals(assays, "from", "to")]]
  /\ pc' = "done"
  /\ UNCHANGED <<collars, surveys, assays, traces>>

ValidateSurveysCall ==
  /\ pc = "start"
  /\ result' = [op |-> "validate_surveys", step |-> 0, method |-> "none",
                out |-> [raised |-> "none", columns |-> {"hole_id", "type"},
                         rows |-> validate_surveys(surveys, "from")]]
  /\ pc' = "done"
  /\ UNCHANGED <<collars, surveys, assays, traces>>

NextValidate == ValidateIntervalsCall \/ ValidateSurveysCall

SpecValidate == InitValidate /\ [][NextValidate]_vars

----------------------------------------------------------------------------
(* Properties of validation *)

IntervalsValidated == pc = "done" /\ result.op = "validate_intervals"

SurveysValidated == pc = "done" /\ result.op = "validate_surveys"

IssuesOf(h) == SelectSeq(result.out.rows, LAMBDA r : r.hole_id = h)

(* the interval rows of hole h in ascending order of from *)
CheckedOf(h) ==
  LET rows == SelectSeq(assays.rows, LAMBDA r : r.hole_id = h)
  IN SortedBy(rows, [i \in 1..Len(rows) |-> NumKey(rows[i].from)])

MissingDepth(r) == IsNaN(r.from) \/ IsNaN(r.to)

(* row i of hole h starts before the end of the row before it *)
StartsBeforePreviousEnd(h, i) ==
  /\ i > 1
  /\ ~MissingDepth(CheckedOf(h)[i])
  /\ ~IsNaN(CheckedOf(h)[i - 1].to)
  /\ CheckedOf(h)[i].from < CheckedOf(h)[i - 1].to

(* row i of hole h is offending *)
Offending(h, i) ==
  \/ MissingDepth(CheckedOf(h)[i])
  \/ CheckedOf(h)[i].to <= CheckedOf(h)[i].from
  \/ StartsBeforePreviousEnd(h, i)

(* the original statement of C17: every hole has exactly one issue record  *)
(* per offending row, where a row is offending if a depth is missing, if   *)
(* to <= from, or if from is less than the previous row's to.              *)
C17_OneIssuePerOffendingRow ==
  IntervalsValidated =>
     \A h \in Holes :
        Len(IssuesOf(h)) =
          Cardinality({i \in 1..Len(CheckedOf(h)) : Offending(h, i)})

(* the problems of row i of hole h: a missing depth alone, otherwise a     *)
(* non-positive length and, independently, a start before the end of the   *)
(* nearest earlier row that has both depths                                *)
ProblemsOf(h, i) ==
  LET r == CheckedOf(h)[i]
      earlier == {j \in 1..(i - 1) : ~MissingDepth(CheckedOf(h)[j])}
  IN IF MissingDepth(r) THEN {"missing_depth"}
     ELSE (IF r.to <= r.from THEN {"non_positive_length"} ELSE {})
          \cup (IF earlier # {} /\ r.from < CheckedOf(h)[SetMax(earlier)].to
                THEN {"overlap"} ELSE {})

RECURSIVE SumOver(_, _)
SumOver(S, f) ==
  IF S = {} THEN 0
  ELSE LET x == CHOOSE x \in S : TRUE IN f[x] + SumOver(S \ {x}, f)

(* C17: validate_intervals goes through every row of every hole in         *)
(* ascending order of from and returns one issue record per problem of a   *)
(* row: missing_depth for a row without from or to; otherwise              *)
(* non_positive_length when to <= from and, independently, overlap when    *)
(* from is less than the to of the nearest earlier row with both depths,   *)
(* so that a row with both problems has two records.                       *)
C17_OneIssuePerProblem ==
  IntervalsValidated =>
     \A h \in Holes :
        LET n == Len(CheckedOf(h))
        IN /\ Len(IssuesOf(h)) =
                SumOver(1..n, [i \in 1..n |-> Cardinality(ProblemsOf(h, i))])
           /\ \A i \in 1..n :
                \A type \in {"missing_depth", "non_positive_length", "overlap"} :
                   Cardinality({k \in 1..Len(IssuesOf(h)) :
                                  /\ IssuesOf(h)[k].type = type
                                  /\ IssuesOf(h)[k].row = CheckedOf(h)[i]}) =
                   Cardinality({j \in 1..n :
                                  /\ CheckedOf(h)[j] = CheckedOf(h)[i]
                                  /\ type \in ProblemsOf(h, j)})

(* the interval 5-5 after the interval 0-10 has no length and starts       *)
(* before 10: it has a non_positive_length and an overlap record           *)
C17_Witness ==
  /\ IntervalsValidated
  /\ Len(CheckedOf("A")) = 2
  /\ ProblemsOf("A", 2) = {"non_positive_length", "overlap"}
  /\ Len(IssuesOf("A")) = 2
  /\ IssuesOf("A")[1].type = "non_positive_length"
  /\ IssuesOf("A")[2].type = "overlap"
  /\ IssuesOf("A")[1].row = IssuesOf("A")[2].row

(* the station depths of hole h in table order *)
DepthsOf(h) ==
  LET rows == SelectSeq(surveys.rows, LAMBDA r : r.hole_id = h)
  IN [i \in 1..Len(rows) |-> rows[i].from]

NonDecreasing(depths) ==
  \A i, j \in 1..Len(depths) : i < j => depths[i] <= depths[j]

(* C18: validate_surveys returns one non_monotonic_survey issue for every  *)
(* hole whose station depths are not non-decreasing and none for a hole    *)
(* whose depths are non-decreasing, equal consecutive depths included.     *)
C18_NonMonotonicSurvey ==
  SurveysValidated =>
     /\ \A k \in 1..Len(result.out.rows) :
          result.out.rows[k].type = "non_monotonic_survey"
     /\ \A h \in Holes :
          Len(IssuesOf(h)) = IF NonDecreasing(DepthsOf(h)) THEN 0 ELSE 1

(* hole A goes 50, 50, 0: the equal depths are accepted, the step back to  *)
(* 0 gives the one issue of the hole                                       *)
C18_Witness ==
  /\ SurveysValidated
  /\ DepthsOf("A") = << 50 * MdScale, 50 * MdScale, 0 >>
  /\ Len(result.out.rows) = 1
  /\ result.out.rows[1].hole_id = "A"

----------------------------------------------------------------------------
(* Reconstruction of a hole with non-finite orientations *)

(* (azimuth, dip) pairs: straight down, no azimuth, no dip, infinite azimuth *)
NonFiniteOrients == { <<0, -900>>, <<NaN, -900>>, <<0, NaN>>, <<Inf, -900>> }

(* no station, or one station of hole A at depth md *)
StationChoices(md) ==
  {<< >>} \cup {<< [hole_id |-> "A", from |-> md, azimuth |-> o[1], dip |-> o[2]] >> :
                  o \in NonFiniteOrients}

(* survey tables of hole A in ascending depth with stations at 0, 35, 70 *)
NonFiniteSurveyTables ==
  {[columns |-> SurveyColumns, rows |-> s0 \o s1 \o s2] :
     s0 \in StationChoices(0), s1 \in StationChoices(35 * MdScale),
     s2 \in StationChoices(70 * MdScale)}

InitNonFinite ==
  /\ collars = [columns |-> CollarColumns, rows |-> << CollarAt("A", 0, 0, 0) >>]
  /\ surveys \in {t \in NonFiniteSurveyTables : Len(t.rows) <= MaxStations}
  /\ assays = EmptyTable
  /\ traces = EmptyTable
  /\ result = NoResult
  /\ pc = "start"

SpecNonFinite == InitNonFinite /\ [][Next]_vars

NonFinite(v) == IsNaN(v) \/ IsInf(v)

(* the depths of the stations of hole h without a finite azimuth and dip *)
NonFiniteMds(h) ==
  {StationsOf(h)[i].from : i \in {j \in 1..Len(StationsOf(h)) :
      NonFinite(StationsOf(h)[j].azimuth) \/ NonFinite(StationsOf(h)[j].dip)}}

(* the vertices of hole h in the segments that start at or after the first *)
(* station without a finite orientation have a NaN position                *)
NaNFromFirstNonFinite(h) ==
  \A k \in 1..Len(OutRows(h)) :
     OutRows(h)[k].md > SetMin(NonFiniteMds(h)) =>
        \/ IsNaN(OutRows(h)[k].x)
        \/ IsNaN(OutRows(h)[k].y)
        \/ IsNaN(OutRows(h)[k].z)

(* C19: when a station of a hole has a NaN or infinite azimuth or dip,     *)
(* reconstruction does not raise, with any of the three methods: it emits  *)
(* the vertices of the hole, and those from the affected segment onward    *)
(* have NaN positions.                                                     *)
C19_NonFiniteOrientation ==
  ReconstructDone =>
     \A h \in Holes :
        (Len(CollarsOf(h)) > 0 /\ NonFiniteMds(h) # {}) =>
           /\ result.out.raised = "none"
           /\ Len(OutRows(h)) = ExpectedVertexCount(StationMds(h), result.step)
           /\ NaNFromFirstNonFinite(h)

(* the same for the holes whose non-finite orientations are all NaN *)
NaNOrientationPropagates ==
  ReconstructDone =>
     \A h \in Holes :
        (/\ Len(CollarsOf(h)) > 0
         /\ NonFiniteMds(h) # {}
         /\ \A i \in 1..Len(StationsOf(h)) :
               ~IsInf(StationsOf(h)[i].azimuth) /\ ~IsInf(StationsOf(h)[i].dip)) =>
           /\ result.out.raised = "none"
           /\ Len(OutRows(h)) = ExpectedVertexCount(StationMds(h), result.step)
           /\ NaNFromFirstNonFinite(h)

----------------------------------------------------------------------------
(* Geology loading: data.py, load_geology and its helpers *)
(* Depths are integers in units of 1/GeoScale: four decimals. *)

GeoScale == 10 ^ 4

(* one unit of the third decimal, 0.001 *)
Milli == GeoScale \div 1000

MaxGeology == 3

(* Series.round(3) and round(x, 3): to the nearest 0.001, halves to the    *)
(* even neighbour; NaN and infinity stay what they are                     *)
Round3(v) ==
  IF IsNaN(v) \/ IsInf(v) THEN v
  ELSE LET q == v \div Milli
           r == v % Milli
       IN IF 2 * r < Milli THEN Milli * q
          ELSE IF 2 * r > Milli THEN Milli * (q + 1)
          ELSE IF q % 2 = 0 THEN Milli * q ELSE Milli * (q + 1)

(* astype(str).str.strip() of a hole id: a missing id becomes the text nan *)
StrStrip(h) ==
  IF h = NoHole THEN "nan"
  ELSE IF h \in {"A", " A", "A "} THEN "A"
  ELSE IF h \in {"B", " B"} THEN "B"
  ELSE IF h \in {"", " "} THEN ""
  ELSE h

(* the order of the stripped hole ids as strings *)
StrRank(h) ==
  IF h = "" THEN 0 ELSE IF h = "A" THEN 1 ELSE IF h = "B" THEN 2 ELSE 3

(* the bounds of a row whose from equals its to: to = from + 0.001 *)
Widened(frm, to) == IF IsInf(frm) THEN frm ELSE Round3(frm + Milli)

(* _normalize_interval_bounds on one row *)
NormalizedRow(r) ==
  LET frm == Round3(r.from)
      to == Round3(r.to)
      equal == ~IsNaN(frm) /\ ~IsNaN(to) /\ to = frm
  IN [r EXCEPT !.from = frm, !.to = IF equal THEN Widened(frm, to) ELSE to]

_normalize_interval_bounds(df) ==
  [df EXCEPT !.rows = [i \in 1..Len(df.rows) |-> NormalizedRow(df.rows[i])]]

(* float comparison a < b: false when either side is NaN *)
FLess(a, b) == ~IsNaN(a) /\ ~IsNaN(b) /\ a < b

(* DataFrame.sort_values([hole_id, from, to]): three stable sorts, the     *)
(* least significant key first                                             *)
SortedByHoleFromTo(rows) ==
  LET by_to == SortedBy(rows, [i \in 1..Len(rows) |-> NumKey(rows[i].to)])
      by_from == SortedBy(by_to, [i \in 1..Len(by_to) |-> NumKey(by_to[i].from)])
  IN SortedBy(by_from, [i \in 1..Len(by_from) |-> StrRank(by_from[i].hole_id)])

(* the walk of _validate_non_overlapping_intervals over the ordered rows:  *)
(* prev_to restarts with every hole; TRUE when a row starts before the end *)
(* of the row before it                                                    *)
RECURSIVE OverlapFound(_, _)
OverlapFound(ordered, k) ==
  IF k > Len(ordered) THEN FALSE
  ELSE IF /\ k > 1
          /\ ordered[k - 1].hole_id = ordered[k].hole_id
          /\ FLess(Round3(ordered[k].from), Round3(ordered[k - 1].to))
       THEN TRUE
       ELSE OverlapFound(ordered, k + 1)

(* "none", or the error _validate_non_overlapping_intervals raises *)
_validate_non_overlapping_intervals(df) ==
  IF Len(df.rows) = 0 \/ df.columns = {} THEN "none"
  ELSE IF OverlapFound(SortedByHoleFromTo(df.rows), 1) THEN "ValueError"
  ELSE "none"

GeologyRaise(msg) ==
  [raised |-> "ValueError", message |-> msg, columns |-> {}, rows |-> << >>]

(* a row load_geology rejects after normalisation *)
InvalidRow(r) ==
  \/ r.hole_id = ""
  \/ IsNaN(r.from)
  \/ IsNaN(r.to)
  \/ FLess(r.to, r.from)

(* 0.5 * (from + to) in units of 1 / (2 * GeoScale) *)
MidOf(r) == IF IsInf(r.from) \/ IsInf(r.to) THEN Inf ELSE FAdd(r.from, r.to)

(* load_geology(source) of a table with the standard column names, flat *)
load_geology(source) ==
  IF ~({"hole_id", "from", "to"} \subseteq source.columns)
  THEN GeologyRaise("Geology table missing column")
  ELSE
    LET stripped == [source EXCEPT !.rows =
                       [i \in 1..Len(source.rows) |->
                          [source.rows[i] EXCEPT !.hole_id = StrStrip(@)]]]
        df == _normalize_interval_bounds(stripped)
    IN IF \E i \in 1..Len(df.rows) : InvalidRow(df.rows[i])
       THEN GeologyRaise("Geology table has missing or invalid interval values")
       ELSE IF ~("geology_code" \in df.columns \/ "geology_description" \in df.columns)
       THEN GeologyRaise("Geology table missing categorical columns")
       ELSE IF _validate_non_overlapping_intervals(df) # "none"
       THEN GeologyRaise("Geology intervals overlap for hole")
       ELSE [raised |-> "none", message |-> "",
             columns |-> df.columns \cup {"mid", "geology_code", "geology_description"},
             rows |-> SortedByHoleFromTo(
                        [i \in 1..Len(df.rows) |->
                           [hole_id |-> df.rows[i].hole_id,
                            from |-> df.rows[i].from,
                            to |-> df.rows[i].to,
                            mid |-> MidOf(df.rows[i]),
                            geology_code |-> df.rows[i].geology_code,
                            geology_description |-> df.rows[i].geology_code]])]

(* Inputs of load_geology *)

GeologyColumns == {"hole_id", "from", "to", "geology_code"}

GeologyAt(h, frm, to) ==
  [hole_id |-> h, from |-> frm, to |-> to, geology_code |-> "FG"]

GeologyRows ==
  { GeologyAt("A", 0, 10 * GeoScale),
    GeologyAt("A", 10 * GeoScale, 20 * GeoScale),
    GeologyAt("A", 95000, 20 * GeoScale),
    GeologyAt("A", 101234, 101234),
    GeologyAt("A", 101236, 12 * GeoScale),
    GeologyAt("A", 101236, 101234),
    GeologyAt("A", 101234, 101231),
    GeologyAt("A", NaN, 10 * GeoScale),
    GeologyAt("A", Inf, Inf),
    GeologyAt(" A", 20 * GeoScale, 30 * GeoScale),
    GeologyAt("B", 0, 10 * GeoScale),
    GeologyAt("", 0, 10 * GeoScale) }

RECURSIVE GeologySeqs(_)
GeologySeqs(n) ==
  IF n = 0 THEN { << >> }
  ELSE LET shorter == GeologySeqs(n - 1)
       IN shorter \cup {Append(s, r) : s \in {t \in shorter : Len(t) = n - 1},
                                        r \in GeologyRows}

GeologyTables ==
  {[columns |-> GeologyColumns, rows |-> s] : s \in GeologySeqs(MaxGeology)}
    \cup {[columns |-> {"hole_id", "from", "geology_code"}, rows |-> << >>]}

InitGeology ==
  /\ collars = EmptyTable
  /\ surveys = EmptyTable
  /\ assays \in GeologyTables
  /\ traces = EmptyTable
  /\ result = NoResult
  /\ pc = "start"

LoadGeologyCall ==
  /\ pc = "start"
  /\ result' = [op |-> "load_geology", step |-> 0, method |-> "none",
                out |-> load_geology(assays)]
  /\ pc' = "done"
  /\ UNCHANGED <<collars, surveys, assays, traces>>

NextGeology == LoadGeologyCall

SpecGeology == InitGeology /\ [][NextGeology]_vars

(* Properties of load_geology *)

GeologyDone == pc = "done" /\ result.op = "load_geology"

GeologyReturned == GeologyDone /\ result.out.raised = "none"

(* the returned intervals of hole h, in the order returned: by from *)
GeologyOf(h) == SelectSeq(result.out.rows, LAMBDA r : r.hole_id = h)

(* the source rows as load_geology sees them: ids stripped, bounds rounded *)
RoundedSource ==
  [i \in 1..Len(assays.rows) |->
     [hole_id |-> StrStrip(assays.rows[i].hole_id),
      from |-> Round3(assays.rows[i].from),
      to |-> Round3(assays.rows[i].to)]]

(* what a returned row has to be for a rounded source row *)
ExpectedBounds(r) ==
  [hole_id |-> r.hole_id, from |-> r.from,
   to |-> IF r.to = r.from THEN r.from + Milli ELSE r.to]

ReturnedBounds(r) == [hole_id |-> r.hole_id, from |-> r.from, to |-> r.to]

(* within every hole: from_i < to_i <= from_(i+1) *)
OrderedDisjoint ==
  \A h \in {result.out.rows[i].hole_id : i \in 1..Len(result.out.rows)} :
     LET g == GeologyOf(h)
     IN /\ \A i \in 1..Len(g) : g[i].from < g[i].to
        /\ \A i \in 1..(Len(g) - 1) :
              g[i].from <= g[i + 1].from /\ g[i].to <= g[i + 1].from

(* how many times x occurs in the sequence s *)
Occurrences(s, x) == Cardinality({k \in 1..Len(s) : s[k] = x})

(* the returned rows are the source rows, rounded and widened *)
RoundedAndWidened ==
  /\ Len(result.out.rows) = Len(assays.rows)
  /\ \A r \in {RoundedSource[i] : i \in 1..Len(RoundedSource)} :
        Occurrences([k \in 1..Len(result.out.rows) |->
                       ReturnedBounds(result.out.rows[k])], ExpectedBounds(r))
          = Occurrences([k \in 1..Len(RoundedSource) |->
                           ExpectedBounds(RoundedSource[k])], ExpectedBounds(r))

(* a source row with a missing bound, or with to < from at three decimals *)
BadBounds(r) == IsNaN(r.from) \/ IsNaN(r.to) \/ r.to < r.from

(* two source rows of one hole that overlap once rounded and widened *)
SourceOverlap ==
  \E i, j \in 1..Len(RoundedSource) :
     /\ i # j
     /\ RoundedSource[i].hole_id = RoundedSource[j].hole_id
     /\ ExpectedBounds(RoundedSource[i]).from < ExpectedBounds(RoundedSource[j]).to
     /\ ExpectedBounds(RoundedSource[j]).from < ExpectedBounds(RoundedSource[i]).to

GeologyChecked ==
  /\ GeologyReturned => OrderedDisjoint /\ RoundedAndWidened
  /\ (\E i \in 1..Len(RoundedSource) : BadBounds(RoundedSource[i]))
        => result.out.raised = "ValueError"
  /\ (/\ \A i \in 1..Len(RoundedSource) :
            ~BadBounds(RoundedSource[i]) /\ RoundedSource[i].hole_id # ""
      /\ SourceOverlap)
        => /\ result.out.raised = "ValueError"
           /\ result.out.message = "Geology intervals overlap for hole"

(* C20: whenever load_geology returns, the returned intervals of every     *)
(* hole, ordered by from, satisfy from_i < to_i <= from_(i+1) at three     *)
(* decimals: the bounds are the source bounds rounded to 3 decimals, with  *)
(* to = from + 0.001 where they were equal; a row with to < from or a      *)
(* missing bound raises ValueError, and two overlapping intervals of a     *)
(* hole raise a ValueError that mentions the overlap.                      *)
C20_GeologyIntervals ==
  (GeologyDone /\ {"hole_id", "from", "to"} \subseteq assays.columns) => GeologyChecked

(* the same for source tables whose bounds are finite or missing *)
FiniteGeologyIntervals ==
  (/\ GeologyDone
   /\ {"hole_id", "from", "to"} \subseteq assays.columns
   /\ \A i \in 1..Len(assays.rows) :
         ~IsInf(assays.rows[i].from) /\ ~IsInf(assays.rows[i].to))
     => GeologyChecked

----------------------------------------------------------------------------
(* The operations called on the caller's tables, and called again *)

PureCollars ==
  { None,
    [columns |-> CollarColumns,
     rows |-> << CollarAt("B", 1, 2, 3), CollarAt("A", 7, 8, 9) >>] }

PureSurveys ==
  { [columns |-> SurveyColumns,
     rows |-> << StationAt("A", 0), StationAt("B", 50),
                 [hole_id |-> "A", from |-> 50 * MdScale, azimuth |-> 900, dip |-> -300] >>],
    [columns |-> SurveyColumns,
     rows |-> << StationAt("A", 100), StationAt("A", 50) >>] }

PureIntervals ==
  { [columns |-> SourceColumns, rows |-> << >>],
    [columns |-> SourceColumns,
     rows |-> << SourceAt("A", 10, 20, 4), SourceAt("A", 0, 10, 2) >>],
    [columns |-> SourceColumns,
     rows |-> << SourceAt("B", 0, 20, 3), SourceAt("A", 5, 15, 6),
                 SourceAt("A", 0, 10, 2) >>] }

PureTraces ==
  { [columns |-> TraceColumns, rows |-> << >>],
    [columns |-> TraceColumns,
     rows |-> << VertexAt("A", 10 * MdScale), VertexAt("A", 0),
                 VertexAt("B", 10 * MdScale) >>],
    [columns |-> ResampleColumns,
     rows |-> << PathVertex("A", 0), PathVertex("A", 25), PathVertex("B", 5) >>] }

InitPure ==
  /\ collars \in PureCollars
  /\ surveys \in PureSurveys
  /\ assays \in PureIntervals
  /\ traces \in PureTraces
  /\ result = NoResult
  /\ pc = "start"

DesurveyOps ==
  {"minimum_curvature_desurvey", "tangential_desurvey", "balanced_tangential_desurvey"}

(* what the operation op returns for the tables as they are now *)
OutcomeOf(op, step, method) ==
  CASE op \in DesurveyOps -> _desurvey(collars, surveys, step, None, method)
    [] op = "attach_assay_positions" -> attach_assay_positions(assays, traces, None)
    [] op = "composite_intervals" ->
         composite_intervals(assays, "grade", "from", "to", step, method)
    [] op = "resample_trace" -> resample_trace(traces, step)
    [] op = "validate_intervals" ->
         [raised |-> "none", columns |-> {"hole_id", "type", "row"},
          rows |-> validate_intervals(assays, "from", "to")]
    [] op = "validate_surveys" ->
         [raised |-> "none", columns |-> {"hole_id", "type"},
          rows |-> validate_surveys(surveys, "from")]

(* the caller repeats the call it made, on the tables it still holds *)
CallAgain ==
  /\ pc = "done"
  /\ result' = [result EXCEPT !.out = OutcomeOf(result.op, result.step, result.method)]
  /\ pc' = "again"
  /\ collars' = IF result.op \in DesurveyOps
                THEN CallerTableAfter(collars, None) ELSE collars
  /\ surveys' = IF result.op \in DesurveyOps
                THEN CallerTableAfter(surveys, None) ELSE surveys
  /\ assays' = IF result.op = "attach_assay_positions"
               THEN CallerTableAfter(assays, None) ELSE assays
  /\ traces' = IF result.op = "attach_assay_positions"
               THEN CallerTableAfter(traces, None) ELSE traces

NextPure ==
  \/ minimum_curvature_desurvey
  \/ tangential_desurvey
  \/ balanced_tangential_desurvey
  \/ AttachCall
  \/ CompositeCall
  \/ ResampleCall
  \/ ValidateIntervalsCall
  \/ ValidateSurveysCall
  \/ CallAgain

SpecPure == InitPure /\ [][NextPure]_vars

(* a call leaves the four tables of the caller as they were *)
InputsKept ==
  /\ collars' = collars
  /\ surveys' = surveys
  /\ assays' = assays
  /\ traces' = traces

(* the repeated call returns what the first call returned *)
SameOutput == (pc = "done" /\ pc' = "again") => result'.out = result.out

----------------------------------------------------------------------------
(* Validation of structural points: validate.py, validate_structural_points *)
(* Depths are in units of 1/MdScale, dips and azimuths in units of 1/AngScale. *)

MaxPoints == 2

(* row.get(col): a column the table does not have reads as None, which     *)
(* pd.isna and the "is not None" tests treat as a missing value            *)
PointGet(row, col) == IF col \in DOMAIN row THEN row[col] ELSE NaN

PointIssue(hole_id, idx, type) == [hole_id |-> hole_id, row_index |-> idx, type |-> type]

PointValueIssue(hole_id, idx, type, value) ==
  [hole_id |-> hole_id, row_index |-> idx, type |-> type, value |-> value]

(* lines 75-77: the dip of a row is outside [0, 90] *)
DipOutOfRange(dip) == ~IsNaN(dip) /\ (dip < 0 \/ dip > 90 * AngScale)

(* AzimuthOutOfRange with 360 accepted *)
AzimuthOutOfRange_closed(az) == ~IsNaN(az) /\ (az < 0 \/ az > 360 * AngScale)

(* lines 80-82: the azimuth of a row is outside [0, 360) *)
AzimuthOutOfRange(az) == ~IsNaN(az) /\ (az < 0 \/ az >= 360 * AngScale)

(* lines 66-83: the issues of the row with index idx *)
PointIssues(row, idx, dip_col, az_col, hole_col, depth_col) ==
  LET hole_id == PointGet(row, hole_col)
      depth == PointGet(row, depth_col)
      dip == PointGet(row, dip_col)
      az == PointGet(row, az_col)
  IN IF IsNaN(depth)
     THEN << PointIssue(hole_id, idx, "missing_depth") >>
     ELSE (IF DipOutOfRange(dip)
           THEN << PointValueIssue(hole_id, idx, "dip_out_of_range", dip) >>
           ELSE << >>)
          \o (IF AzimuthOutOfRange(az)
              THEN << PointValueIssue(hole_id, idx, "azimuth_out_of_range", az) >>
              ELSE << >>)

(* lines 65-83: the loop over df.iterrows(); the index of a row is its     *)
(* position, counted from 0                                                *)
RECURSIVE PointLoop(_, _, _, _, _, _, _)
PointLoop(issues, df, k, dip_col, az_col, hole_col, depth_col) ==
  IF k > Len(df.rows) THEN issues
  ELSE PointLoop(issues \o PointIssues(df.rows[k], k - 1, dip_col, az_col,
                                       hole_col, depth_col),
                 df, k + 1, dip_col, az_col, hole_col, depth_col)

validate_structural_points(df, dip_col, az_col, hole_col, depth_col) ==
  PointLoop(<< >>, df, 1, dip_col, az_col, hole_col, depth_col)

(* Inputs of validate_structural_points *)

PointColumns == {"hole_id", "depth", "dip", "azimuth"}

PointAt(depth, dip, az) ==
  [hole_id |-> "A", depth |-> depth, dip |-> dip, azimuth |-> az]

PointRows ==
  { PointAt(10 * MdScale, 450, 900),
    PointAt(10 * MdScale, 0, 0),
    PointAt(10 * MdScale, 900, 3599),
    PointAt(10 * MdScale, 910, 900),
    PointAt(10 * MdScale, -1, 900),
    PointAt(10 * MdScale, 450, 3600),
    PointAt(10 * MdScale, 450, 3610),
    PointAt(10 * MdScale, 450, -1),
    PointAt(10 * MdScale, 910, 3610),
    PointAt(NaN, 910, 3610),
    PointAt(NaN, 450, 900),
    PointAt(10 * MdScale, NaN, NaN),
    PointAt(10 * MdScale, Inf, 900) }

(* a row of a table that has no dip and no depth column *)
BarePoint == [hole_id |-> "A", azimuth |-> 3610]

PointTables ==
  {[columns |-> PointColumns, rows |-> rows] :
     rows \in UNION {[1..n -> PointRows] : n \in 0..MaxPoints}}
  \cup {[columns |-> {"hole_id", "azimuth"}, rows |-> << BarePoint >>]}

InitStructural ==
  /\ collars = EmptyTable
  /\ surveys = EmptyTable
  /\ assays \in PointTables
  /\ traces = EmptyTable
  /\ result = NoResult
  /\ pc = "start"

ValidateStructuralPointsCall ==
  /\ pc = "start"
  /\ result' = [op |-> "validate_structural_points", step |-> 0, method |-> "none",
                out |-> [raised |-> "none",
                         columns |-> {"hole_id", "row_index", "type", "value"},
                         rows |-> validate_structural_points(assays, "dip", "azimuth",
                                                             "hole_id", "depth")]]
  /\ pc' = "done"
  /\ UNCHANGED <<collars, surveys, assays, traces>>

NextStructural == ValidateStructuralPointsCall

SpecStructural == InitStructural /\ [][NextStructural]_vars

(* Properties of validate_structural_points *)

StructuralDone == pc = "done" /\ result.op = "validate_structural_points"

(* how many issues of a type the row with index idx has *)
PointIssueCount(idx, type) ==
  Cardinality({k \in 1..Len(result.out.rows) :
                 result.out.rows[k].row_index = idx /\ result.out.rows[k].type = type})

PointIssueTotal(idx) ==
  Cardinality({k \in 1..Len(result.out.rows) : result.out.rows[k].row_index = idx})

(* the value of a column of a source row, NaN when it is missing *)
Measured(i, col) ==
  IF col \in DOMAIN assays.rows[i] THEN assays.rows[i][col] ELSE NaN

(* NaN compares false with everything *)
DipBad(i) ==
  LET dip == Measured(i, "dip")
  IN ~IsNaN(dip) /\ (dip < 0 \/ dip > 900)

AzimuthBad(i) ==
  LET az == Measured(i, "azimuth")
  IN ~IsNaN(az) /\ (az < 0 \/ az >= 3600)

(* C21: validate_structural_points returns, for every row, a missing_depth *)
(* issue and nothing else if the depth is missing; otherwise exactly one   *)
(* dip_out_of_range issue iff dip < 0 or dip > 90 and exactly one          *)
(* azimuth_out_of_range issue iff azimuth < 0 or azimuth >= 360; a row     *)
(* within range has no issue.                                              *)
C21_StructuralPoints ==
  StructuralDone =>
     \A i \in 1..Len(assays.rows) :
        IF IsNaN(Measured(i, "depth"))
        THEN /\ PointIssueCount(i - 1, "missing_depth") = 1
             /\ PointIssueTotal(i - 1) = 1
        ELSE /\ PointIssueCount(i - 1, "missing_depth") = 0
             /\ PointIssueCount(i - 1, "dip_out_of_range") = (IF DipBad(i) THEN 1 ELSE 0)
             /\ PointIssueCount(i - 1, "azimuth_out_of_range")
                  = (IF AzimuthBad(i) THEN 1 ELSE 0)
             /\ PointIssueTotal(i - 1)
                  = (IF DipBad(i) THEN 1 ELSE 0) + (IF AzimuthBad(i) THEN 1 ELSE 0)

(* a table with an azimuth of 360 and a dip of 90 was validated: one       *)
(* azimuth issue, no dip issue                                             *)
C21_Witness ==
  /\ StructuralDone
  /\ \E i, j \in 1..Len(assays.rows) :
        /\ ~IsNaN(Measured(i, "depth")) /\ Measured(i, "azimuth") = 3600
        /\ PointIssueCount(i - 1, "azimuth_out_of_range") = 1
        /\ ~IsNaN(Measured(j, "depth")) /\ Measured(j, "dip") = 900
        /\ PointIssueTotal(j - 1) = 0

----------------------------------------------------------------------------
(* Segments of a reconstructed hole: which vertices a station pair emits *)

DistinctDepths(h) == Cardinality(StationMds(h)) = Len(StationsOf(h))

(* for a hole with pairwise distinct depths: its stations by ascending depth *)
StationsByDepth(h) ==
  LET st == StationsOf(h)
  IN [k \in 1..Len(st) |->
        st[CHOOSE i \in 1..Len(st) :
              Cardinality({j \in 1..Len(st) : st[j].from < st[i].from}) = k - 1]]

(* the number of sub-steps of the segment that starts at station j *)
StepsOfSegment(h, j) ==
  Max(1, Ceil(StationsByDepth(h)[j + 1].from - StationsByDepth(h)[j].from, result.step))

RECURSIVE StepsBefore(_, _)
StepsBefore(h, j) ==
  IF j <= 1 THEN 0 ELSE StepsBefore(h, j - 1) + StepsOfSegment(h, j - 1)

(* the vertex that sub-step t (1..StepsOfSegment) of segment j emitted *)
VertexOfStep(h, j, t) == OutRows(h)[1 + StepsBefore(h, j) + t]

(* the holes whose vertices can be told apart by segment *)
SegmentedHoles ==
  {h \in Holes : /\ Len(CollarsOf(h)) > 0
                 /\ Len(StationsOf(h)) > 1
                 /\ DistinctDepths(h)}

(* the (segment, sub-step) pairs of hole h *)
StepsOfHole(h) ==
  {jt \in (1..(Len(StationsOf(h)) - 1)) \X (1..Ceil(SetMax(StationMds(h)), SetMin(Steps))) :
      jt[2] <= StepsOfSegment(h, jt[1])}

(* s0 + weight * (s1 - s0) with weight = (md - s0.md) / delta_md, weight   *)
(* in units of 1/WeightScale                                               *)
WeightedBetween(a0, a1, md, md0, md1) ==
  a0 + Round(Round((md - md0) * WeightScale, md1 - md0) * (a1 - a0), WeightScale)

(* the orientation a vertex of segment (s0, s1) has to report *)
OrientationAsSpecified(v, s0, s1) ==
  IF result.method = "tangential"
  THEN v.azimuth = s0.azimuth /\ v.dip = s0.dip
  ELSE IF result.method = "balanced_tangential"
  THEN /\ v.azimuth = Round(s0.azimuth + s1.azimuth, 2)
       /\ v.dip = Round(s0.dip + s1.dip, 2)
  ELSE /\ v.azimuth = WeightedBetween(s0.azimuth, s1.azimuth, v.md, s0.from, s1.from)
       /\ v.dip = WeightedBetween(s0.dip, s1.dip, v.md, s0.from, s1.from)

(* every non-first vertex reports the orientation of its method *)
OrientationPerMethod ==
  (ReconstructDone /\ result.out.raised = "none") =>
     \A h \in SegmentedHoles :
        \A jt \in StepsOfHole(h) :
           OrientationAsSpecified(VertexOfStep(h, jt[1], jt[2]),
                                  StationsByDepth(h)[jt[1]],
                                  StationsByDepth(h)[jt[1] + 1])

(* under minimum curvature the last vertex of a segment reports s1 *)
EndsOnStationOrientation ==
  (ReconstructDone /\ result.out.raised = "none"
     /\ result.method = "minimum_curvature") =>
     \A h \in SegmentedHoles :
        \A j \in 1..(Len(StationsOf(h)) - 1) :
           LET v == VertexOfStep(h, j, StepsOfSegment(h, j))
               s1 == StationsByDepth(h)[j + 1]
           IN v.azimuth = s1.azimuth /\ v.dip = s1.dip

(* C22: the azimuth and dip of every non-first vertex of a segment         *)
(* (s0, s1) follow the method: tangential reports s0's, balanced           *)
(* tangential the average of s0's and s1's, minimum curvature              *)
(* s0 + weight * (s1 - s0) with weight = (md - s0.md) / delta_md, so that  *)
(* under minimum curvature the vertex at s1.md reports exactly s1's        *)
(* azimuth and dip.                                                        *)
C22_ReportedOrientation == OrientationPerMethod /\ EndsOnStationOrientation

----------------------------------------------------------------------------
(* Reconstruction on depths that the steps divide: every md_increment is   *)
(* a whole number of 1/MdScale and the sub-steps add up without rounding   *)

EvenMds == {0, 35 * MdScale, 70 * MdScale}

EvenStationRows ==
  {[hole_id |-> "A", from |-> m, azimuth |-> o[1], dip |-> o[2]] :
      m \in EvenMds, o \in Orients}
  \cup {[hole_id |-> "B", from |-> 35 * MdScale, azimuth |-> 0, dip |-> -900]}

EvenSurveyTables ==
  {[columns |-> SurveyColumns, rows |-> r] :
     r \in UNION {[1..n -> EvenStationRows] : n \in 0..MaxStations}}

InitEven ==
  /\ collars \in {[columns |-> CollarColumns, rows |-> << CollarAt("A", 7, 8, 9) >>],
                  [columns |-> CollarColumns,
                   rows |-> << CollarAt("B", 1, 2, 3), CollarAt("A", 0, 0, 0) >>]}
  /\ surveys \in EvenSurveyTables
  /\ assays = EmptyTable
  /\ traces = EmptyTable
  /\ result = NoResult
  /\ pc = "start"

SpecEven == InitEven /\ [][Next]_vars

(* the vertex at the start (t = 0) or after sub-step t of segment j *)
VertexAtStep(h, j, t) == OutRows(h)[1 + StepsBefore(h, j) + t]

(* the displacement of the whole segment j taken in a single step *)
WholeSegment(h, j) ==
  LET s0 == StationsByDepth(h)[j]
      s1 == StationsByDepth(h)[j + 1]
  IN _segment_displacement(s1.from - s0.from, s0.azimuth, s0.dip,
                           s1.azimuth, s1.dip, result.method)

(* the sub-steps of segment j add up to the single step *)
SumsToWholeSegment(h, j) ==
  LET p0 == VertexAtStep(h, j, 0)
      pn == VertexAtStep(h, j, StepsOfSegment(h, j))
      d == WholeSegment(h, j)
  IN /\ pn.x - p0.x = d.dx
     /\ pn.y - p0.y = d.dy
     /\ pn.z - p0.z = d.dz
     /\ p0.md = StationsByDepth(h)[j].from
     /\ pn.md = StationsByDepth(h)[j + 1].from

(* the vertices of segment j lie on the line from its start to its end,    *)
(* at the fraction t / n                                                   *)
OnStraightLine(h, j) ==
  LET n == StepsOfSegment(h, j)
      p0 == VertexAtStep(h, j, 0)
      pn == VertexAtStep(h, j, n)
  IN \A t \in 1..n :
        LET pt == VertexAtStep(h, j, t)
        IN /\ n * ((pt.x - p0.x) \div t) = pn.x - p0.x /\ (pt.x - p0.x) % t = 0
           /\ n * ((pt.y - p0.y) \div t) = pn.y - p0.y /\ (pt.y - p0.y) % t = 0
           /\ n * ((pt.z - p0.z) \div t) = pn.z - p0.z /\ (pt.z - p0.z) % t = 0

(* C23: for every method the position at every station depth does not     *)
(* depend on step: the sub-step displacements of a segment add up to the   *)
(* displacement of the whole segment taken in one step (delta_md times the *)
(* direction of the method), and the vertices in between lie on the        *)
(* straight line between the positions at s0.md and s1.md.                 *)
C23_StepIndependence ==
  (ReconstructDone /\ result.out.raised = "none") =>
     \A h \in SegmentedHoles :
        \A j \in 1..(Len(StationsOf(h)) - 1) :
           SumsToWholeSegment(h, j) /\ OnStraightLine(h, j)

(* a hole with three stations and a bend was reconstructed by minimum      *)
(* curvature in sub-steps                                                  *)
C23_Witness ==
  /\ ReconstructDone
  /\ result.out.raised = "none"
  /\ result.method = "minimum_curvature"
  /\ "A" \in SegmentedHoles
  /\ Len(StationsOf("A")) = 3
  /\ StationsByDepth("A")[1].azimuth # StationsByDepth("A")[2].azimuth
  /\ StepsOfSegment("A", 1) > 1
  /\ VertexAtStep("A", 2, 1).x # VertexAtStep("A", 2, 0).x

----------------------------------------------------------------------------
(* The stand-alone minimum curvature of src/src/baselode/drill/desurvey.py *)

(* a / n where a missing a gives a missing result *)
FDiv(a, n) == IF IsNaN(a) THEN NaN ELSE Round(a, n)

(* StandaloneDisplacement without the ratio factor *)
StandaloneDisplacement_no_ratio_factor(delta_md, s0, s1, segment_steps) ==
  LET d0 == _direction_cosines(s0.azimuth, s0.dip)
      d1 == _direction_cosines(s1.azimuth, s1.dip)
  IN IF d0.raised # "none" \/ d1.raised # "none"
     THEN [raised |-> "ValueError", dx |-> NaN, dy |-> NaN, dz |-> NaN]
     ELSE [raised |-> "none",
           dx |-> FDiv(FMul(delta_md * RfScale, FAdd(d0.ca, d1.ca)), segment_steps),
           dy |-> FDiv(FMul(delta_md * RfScale, FAdd(d0.cb, d1.cb)), segment_steps),
           dz |-> FDiv(FMul(delta_md * RfScale, FAdd(d0.cc, d1.cc)), segment_steps)]

(* lines 61-66 and 76-78: 0.5 * delta_md * (c0 + c1) * rf / segment_steps, *)
(* in units of 1/PosScale; the division comes last                         *)
StandaloneDisplacement(delta_md, s0, s1, segment_steps) ==
  LET d0 == _direction_cosines(s0.azimuth, s0.dip)
      d1 == _direction_cosines(s1.azimuth, s1.dip)
  IN IF d0.raised # "none" \/ d1.raised # "none"
     THEN [raised |-> "ValueError", dx |-> NaN, dy |-> NaN, dz |-> NaN]
     ELSE LET rf == RatioFactor(Dogleg(d0, d1))
          IN [raised |-> "none",
              dx |-> FDiv(FMul(delta_md * rf, FAdd(d0.ca, d1.ca)), segment_steps),
              dy |-> FDiv(FMul(delta_md * rf, FAdd(d0.cb, d1.cb)), segment_steps),
              dz |-> FDiv(FMul(delta_md * rf, FAdd(d0.cc, d1.cc)), segment_steps)]

(* lines 70-85: the sub-steps of one segment; d is the displacement of one *)
(* sub-step, the same for all of them.  Line 75 evaluates the direction    *)
(* cosines of the interpolated orientation and drops them.                 *)
RECURSIVE StandaloneSubSteps(_, _, _, _, _, _, _, _)
StandaloneSubSteps(st, step_idx, segment_steps, md_increment, s0, s1, hole_id, d) ==
  IF step_idx >= segment_steps \/ st.raised # "none" THEN st
  ELSE
    LET md_cursor == st.md_cursor + md_increment
        weight == Round((md_cursor - s0.from) * WeightScale, s1.from - s0.from)
        az_interp == Interpolated(s0.azimuth, s1.azimuth, weight)
        dip_interp == Interpolated(s0.dip, s1.dip, weight)
        unused == _direction_cosines(az_interp, dip_interp)
        x == FAdd(st.x, d.dx)
        y == FAdd(st.y, d.dy)
        z == FAdd(st.z, d.dz)
        record == [hole_id |-> hole_id, md |-> md_cursor, x |-> x, y |-> y, z |-> z,
                   azimuth |-> az_interp, dip |-> dip_interp]
    IN IF unused.raised # "none" THEN [st EXCEPT !.raised = unused.raised]
       ELSE StandaloneSubSteps([raised |-> "none", md_cursor |-> md_cursor,
                                x |-> x, y |-> y, z |-> z,
                                traces |-> Append(st.traces, record)],
                               step_idx + 1, segment_steps, md_increment, s0, s1,
                               hole_id, d)

(* lines 51-85: the station pairs idx.. of one hole *)
RECURSIVE StandaloneSegments(_, _, _, _, _)
StandaloneSegments(st, idx, hole_surveys, hole_id, step) ==
  IF idx > Len(hole_surveys) - 1 \/ st.raised # "none" THEN st
  ELSE
    LET s0 == hole_surveys[idx]
        s1 == hole_surveys[idx + 1]
        delta_md == s1.from - s0.from
    IN IF delta_md <= 0
       THEN StandaloneSegments(st, idx + 1, hole_surveys, hole_id, step)
       ELSE LET segment_steps == SegmentSteps(delta_md, step)
                md_increment == MdIncrement(delta_md, segment_steps)
                d == StandaloneDisplacement(delta_md, s0, s1, segment_steps)
            IN IF d.raised # "none" THEN [st EXCEPT !.raised = d.raised]
               ELSE StandaloneSegments(
                      StandaloneSubSteps(st, 0, segment_steps, md_increment,
                                         s0, s1, hole_id, d),
                      idx + 1, hole_surveys, hole_id, step)

(* lines 38-85: the loop state after one hole *)
StandaloneHoleTrace(traces_so_far, collars_df, surveys_df, hole_id, step) ==
  LET collar_row == SelectSeq(collars_df.rows, LAMBDA r : r.hole_id = hole_id)[1]
      hole_surveys == HoleSurveys(surveys_df, hole_id)
  IN IF Len(hole_surveys) = 0
     THEN [raised |-> "none", md_cursor |-> 0, x |-> 0, y |-> 0, z |-> 0,
           traces |-> traces_so_far]
     ELSE LET first == hole_surveys[1]
              x == RowGet(collar_row, "x", 0)
              y == RowGet(collar_row, "y", 0)
              z == RowGet(collar_row, "z", 0)
              first_record == [hole_id |-> hole_id, md |-> first.from,
                               x |-> x, y |-> y, z |-> z,
                               azimuth |-> first.azimuth, dip |-> first.dip]
          IN StandaloneSegments([raised |-> "none", md_cursor |-> first.from,
                                 x |-> x, y |-> y, z |-> z,
                                 traces |-> Append(traces_so_far, first_record)],
                                1, hole_surveys, hole_id, step)

(* line 37: the loop over the collar groups *)
RECURSIVE StandaloneHoleLoop(_, _, _, _, _, _)
StandaloneHoleLoop(st, keys, k, collars_df, surveys_df, step) ==
  IF k > Len(keys) \/ st.raised # "none" THEN st
  ELSE StandaloneHoleLoop(
         StandaloneHoleTrace(st.traces, collars_df, surveys_df, keys[k], step),
         keys, k + 1, collars_df, surveys_df, step)

(* src/src desurvey.py lines 29-88: minimum_curvature_desurvey *)
standalone_minimum_curvature_desurvey(collars_in, surveys_in, step, hole_id_col) ==
  LET c == _canonicalize_hole_id(_frame(collars_in), hole_id_col)
      s == _canonicalize_hole_id(_frame(surveys_in), hole_id_col)
  IN IF c.raised # "none"
     THEN [raised |-> c.raised, columns |-> {}, rows |-> << >>]
     ELSE IF s.raised # "none"
     THEN [raised |-> s.raised, columns |-> {}, rows |-> << >>]
     ELSE IF IsEmpty(c.df) \/ IsEmpty(s.df)
     THEN [raised |-> "none", columns |-> TraceColumns, rows |-> << >>]
     ELSE LET st == StandaloneHoleLoop([raised |-> "none", md_cursor |-> 0,
                                         x |-> 0, y |-> 0, z |-> 0, traces |-> << >>],
                                        GroupKeys(c.df), 1, c.df, s.df, step)
          IN IF st.raised # "none"
             THEN [raised |-> st.raised, columns |-> {}, rows |-> << >>]
             ELSE [raised |-> "none",
                   columns |-> IF Len(st.traces) = 0 THEN {} ELSE TraceColumns,
                   rows |-> st.traces]

StandaloneCall ==
  /\ pc = "start"
  /\ \E step \in Steps :
        result' = [op |-> "standalone_minimum_curvature_desurvey", step |-> step,
                   method |-> "minimum_curvature",
                   out |-> standalone_minimum_curvature_desurvey(collars, surveys,
                                                                 step, None)]
  /\ pc' = "done"
  /\ collars' = CallerTableAfter(collars, None)
  /\ surveys' = CallerTableAfter(surveys, None)
  /\ UNCHANGED <<assays, traces>>

NextBoth ==
  \/ minimum_curvature_desurvey
  \/ StandaloneCall

SpecBoth == Init /\ [][NextBoth]_vars

(* Properties of the two minimum curvature implementations *)

BothDone ==
  Done /\ result.op \in {"minimum_curvature_desurvey",
                         "standalone_minimum_curvature_desurvey"}

(* what the other implementation returns for the same tables and step *)
OtherImplementation ==
  IF result.op = "minimum_curvature_desurvey"
  THEN standalone_minimum_curvature_desurvey(collars, surveys, result.step, None)
  ELSE _desurvey(collars, surveys, result.step, None, "minimum_curvature")

(* the two traces have the same vertices in the same order, apart from the *)
(* positions                                                               *)
SameVertices(a, b) ==
  /\ a.raised = b.raised
  /\ a.columns = b.columns
  /\ Len(a.rows) = Len(b.rows)
  /\ \A k \in 1..Len(a.rows) :
        /\ a.rows[k].hole_id = b.rows[k].hole_id
        /\ a.rows[k].md = b.rows[k].md
        /\ a.rows[k].azimuth = b.rows[k].azimuth
        /\ a.rows[k].dip = b.rows[k].dip

(* half a unit of depth, as a length in units of 1/PosScale, plus one for  *)
(* the rounding of the division                                            *)
StepRounding == PosScale \div (2 * MdScale) + 1

(* the positions differ by the rounding of at most one operation per       *)
(* sub-step taken so far                                                   *)
PositionsWithinRounding(a, b) ==
  \A k \in 1..Len(a.rows) :
     /\ Abs(a.rows[k].x - b.rows[k].x) <= k * StepRounding
     /\ Abs(a.rows[k].y - b.rows[k].y) <= k * StepRounding
     /\ Abs(a.rows[k].z - b.rows[k].z) <= k * StepRounding

(* C24 as stated: the stand-alone minimum_curvature_desurvey of src/src    *)
(* and _desurvey(method = "minimum_curvature") of src/python/src return    *)
(* the same trace, the same hole order, md, x, y, z, azimuth and dip for   *)
(* every vertex, for every collar table, survey table and step.            *)
C24_SameTrace == BothDone => result.out = OtherImplementation

(* C24: the two implementations return the same vertices in the same       *)
(* order with the same md, azimuth and dip, and positions that differ by   *)
(* no more than the rounding of their arithmetic.                          *)
C24_SameTraceUpToRounding ==
  BothDone =>
     /\ SameVertices(result.out, OtherImplementation)
     /\ PositionsWithinRounding(result.out, OtherImplementation)

(* a hole with a bend was reconstructed in sub-steps that the segment does *)
(* not divide evenly, and the two traces differ in a position              *)
C24_Witness ==
  /\ BothDone
  /\ result.out.raised = "none"
  /\ Len(result.out.rows) > 2
  /\ result.out # OtherImplementation
  /\ \E k \in 1..Len(result.out.rows) :
        result.out.rows[k].azimuth # result.out.rows[1].azimuth

----------------------------------------------------------------------------
(* validate_intervals on tables with nested and non-adjacent intervals *)

MaxNested == 3

NestedRows ==
  { AssayAt("A", 0, 40 * MdScale), AssayAt("A", 10 * MdScale, 20 * MdScale),
    AssayAt("A", 20 * MdScale, 30 * MdScale), AssayAt("A", 30 * MdScale, 40 * MdScale),
    AssayAt("A", 25 * MdScale, 35 * MdScale), AssayAt("A", 30 * MdScale, 30 * MdScale),
    AssayAt("A", NaN, 10 * MdScale), AssayAt("B", 0, 10 * MdScale) }

NestedTables ==
  {[columns |-> AssayColumns, rows |-> rows] :
     rows \in UNION {[1..n -> NestedRows] : n \in 0..MaxNested}}

InitNested ==
  /\ collars = EmptyTable
  /\ surveys = EmptyTable
  /\ assays \in NestedTables
  /\ traces = EmptyTable
  /\ result = NoResult
  /\ pc = "start"

NextNested == ValidateIntervalsCall

SpecNested == InitNested /\ [][NextNested]_vars

(* rows i and j share a depth range of positive length *)
ShareDepth(r, s) == Max(r.from, s.from) < Min(r.to, s.to)

(* every interval of every hole has both bounds and to > from, and no two  *)
(* intervals of a hole overlap                                             *)
IntervalsSound ==
  /\ \A i \in 1..Len(assays.rows) :
        assays.rows[i].hole_id # NoHole =>
           /\ ~MissingDepth(assays.rows[i])
           /\ assays.rows[i].to > assays.rows[i].from
  /\ \A i, j \in 1..Len(assays.rows) :
        (/\ i # j
         /\ assays.rows[i].hole_id # NoHole
         /\ assays.rows[i].hole_id = assays.rows[j].hole_id
         /\ ~MissingDepth(assays.rows[i])
         /\ ~MissingDepth(assays.rows[j]))
          => ~ShareDepth(assays.rows[i], assays.rows[j])

(* C25: validate_intervals returns an empty issue list if and only if in   *)
(* every hole every interval has both bounds and to > from and no two      *)
(* intervals overlap; an overlap of two intervals that are not neighbours, *)
(* with a nested interval between them, does not go unreported.            *)
C25_EmptyIffSound ==
  IntervalsValidated => (Len(result.out.rows) = 0 <=> IntervalsSound)

(* a long interval, an interval nested in it and a later interval that     *)
(* overlaps only the long one were validated, and an issue was returned    *)
C25_Witness ==
  /\ IntervalsValidated
  /\ Len(assays.rows) = 3
  /\ \E i, j, k \in 1..3 :
        /\ assays.rows[i] = AssayAt("A", 0, 40 * MdScale)
        /\ assays.rows[j] = AssayAt("A", 10 * MdScale, 20 * MdScale)
        /\ assays.rows[k] = AssayAt("A", 30 * MdScale, 40 * MdScale)
  /\ Len(result.out.rows) > 0

----------------------------------------------------------------------------
(* Reconstruction and the row order of the survey table *)

(* the stations of every hole have pairwise distinct depths *)
AllDepthsDistinct ==
  \A i, j \in 1..Len(InputRows(surveys)) :
     (i # j /\ surveys.rows[i].hole_id = surveys.rows[j].hole_id)
        => surveys.rows[i].from # surveys.rows[j].from

(* the rows of the survey table in ascending (hole id, depth): the one     *)
(* arrangement that all permutations of the table share                    *)
SurveysArranged ==
  LET by_md == SortedBy(surveys.rows,
                        [i \in 1..Len(surveys.rows) |-> NumKey(surveys.rows[i].from)])
  IN [surveys EXCEPT !.rows =
        SortedBy(by_md, [i \in 1..Len(by_md) |-> HoleKey(by_md[i].hole_id)])]

(* C26: reconstruction does not depend on the row order of the survey      *)
(* table: when the stations of every hole have pairwise distinct depths,   *)
(* the trace is the trace of the same rows in ascending (hole id, depth),  *)
(* so every permutation of the rows gives the same trace.                  *)
C26_SurveyOrderIrrelevant ==
  (ReconstructDone /\ surveys # None /\ AllDepthsDistinct) =>
     result.out = _desurvey(collars, SurveysArranged, result.step, None, result.method)

(* a hole whose three stations come deepest first was reconstructed *)
C26_Witness ==
  /\ ReconstructDone
  /\ surveys # None
  /\ AllDepthsDistinct
  /\ Len(surveys.rows) = 3
  /\ surveys.rows[1].from > surveys.rows[2].from
  /\ surveys.rows[2].from > surveys.rows[3].from
  /\ \A i \in 1..3 : surveys.rows[i].hole_id = "A"
  /\ result.out.raised = "none"
  /\ Len(result.out.rows) > 3

----------------------------------------------------------------------------
(* Which holes a reconstruction returns, and in which order *)

OutputHoles == {result.out.rows[k].hole_id : k \in 1..Len(result.out.rows)}

(* the holes come in ascending hole id, the vertices of a hole together *)
HolesAscending ==
  \A k \in 1..(Len(result.out.rows) - 1) :
     HoleRank(result.out.rows[k].hole_id) <= HoleRank(result.out.rows[k + 1].hole_id)

(* C27: a hole id is in the reconstruction output if and only if it has at *)
(* least one collar row and at least one survey row; survey rows of a hole *)
(* without collar are ignored, a hole with several collar rows starts at   *)
(* its first collar row, and the holes come in ascending hole id with the  *)
(* vertices of a hole contiguous.                                          *)
C27_HolesInOutput ==
  (ReconstructDone /\ result.out.raised = "none") =>
     /\ OutputHoles \subseteq Holes
     /\ \A h \in Holes :
           /\ h \in OutputHoles <=> (Len(CollarsOf(h)) > 0 /\ Len(StationsOf(h)) > 0)
           /\ h \in OutputHoles =>
                 /\ OutRows(h)[1].x = CollarsOf(h)[1].x
                 /\ OutRows(h)[1].y = CollarsOf(h)[1].y
                 /\ OutRows(h)[1].z = CollarsOf(h)[1].z
     /\ HolesAscending

(* collars given as B then A with stations of both holes: A comes first *)
C27_Witness ==
  /\ ReconstructDone
  /\ result.out.raised = "none"
  /\ collars # None
  /\ Len(collars.rows) = 2
  /\ collars.rows[1].hole_id = "B"
  /\ OutputHoles = {"A", "B"}
  /\ result.out.rows[1].hole_id = "A"

----------------------------------------------------------------------------
(* Compositing of intervals some of which carry no value (NaN) *)

(* intervals of hole A with and without a value, and one of hole B *)
MissingRows ==
  { SourceAt("A", 0, 10, 2), SourceAt("A", 10, 20, 4), SourceAt("A", 5, 15, 6),
    SourceAt("A", 0, 10, NaN), SourceAt("A", 10, 20, NaN),
    SourceAt("B", 0, 20, 3) }

MissingTables ==
  {[columns |-> SourceColumns, rows |-> rows] :
     rows \in UNION {[1..n -> MissingRows] : n \in 0..MaxSources}}

InitMissing ==
  /\ collars = EmptyTable
  /\ surveys = EmptyTable
  /\ assays \in MissingTables
  /\ traces = EmptyTable
  /\ result = NoResult
  /\ pc = "start"

SpecMissing == InitMissing /\ [][NextComposite]_vars

(* every source interval has to > from *)
SourcesProper == \A i \in 1..Len(assays.rows) : assays.rows[i].to > assays.rows[i].from

(* the bin has the width length and starts a whole number of lengths below *)
(* the first from of the hole                                              *)
OnGrid(b, h, length) ==
  /\ b.to - b.from = length
  /\ b.from >= RangeStart(h)
  /\ (b.from - RangeStart(h)) % length = 0

(* the overlaps of the rows with the bin are not negative and their total  *)
(* is positive, so that the weights overlap / total are defined, are not   *)
(* negative and add up to 1                                                *)
WeightsDefined(rows, c_from, c_to) ==
  /\ \A i \in 1..Len(rows) : OverlapOf(rows[i], c_from, c_to) >= 0
  /\ SumSeq([i \in 1..Len(rows) |-> OverlapOf(rows[i], c_from, c_to)]) > 0

(* the values that the rows carry *)
ValuesOf(rows) == {rows[i].grade : i \in 1..Len(rows)} \ {NaN}

(* v, in units of 1/WeightScale, lies between the least and the greatest   *)
(* value of the rows, up to the rounding of one weight per row             *)
BetweenValues(v, rows) ==
  LET slack == SumSeq([i \in 1..Len(rows) |->
                         IF rows[i].grade = NaN THEN 0 ELSE rows[i].grade])
  IN /\ ValuesOf(rows) # {}
     /\ 2 * (WeightScale * SetMin(ValuesOf(rows)) - v) <= slack
     /\ 2 * (v - WeightScale * SetMax(ValuesOf(rows))) <= slack

AveragedBins ==
  \A h \in Holes :
     \A i \in 1..Len(BinsOf(h)) :
        LET b == BinsOf(h)[i]
            rows == Overlapping(h, b.from, b.to)
        IN /\ OnGrid(b, h, result.step)
           /\ WeightsDefined(rows, b.from, b.to)
           /\ BetweenValues(b.grade, rows)

(* C28: when every source interval has to > from and length > 0, every     *)
(* emitted bin has the width length, starts at min(from) + k * length for  *)
(* a whole k >= 0 and has a positive total overlap, so that the weights of *)
(* the average are defined, are not negative and add up to 1, and the      *)
(* averaged value lies between the least and the greatest value of the     *)
(* overlapping intervals.                                                  *)
C28_AverageWellDefined ==
  (CompositeDone /\ result.method = "average" /\ SourcesProper /\ result.step > 0)
     => AveragedBins

(* the same for interval tables in which every interval carries a value *)
AverageOfValuesWellDefined ==
  (CompositeDone /\ result.method = "average" /\ SourcesProper /\ result.step > 0
     /\ \A i \in 1..Len(assays.rows) : assays.rows[i].grade # NaN)
     => AveragedBins

----------------------------------------------------------------------------
(* Datasets: model.py lines 31-104.  A ProjectConfig is an object on a      *)
(* heap, result.project, and a dataset holds a reference to one; a frame is *)
(* a value, since no method writes into a frame and __init__ copies every   *)
(* frame it is given (data._frame, line 57-62).  The variables collars,     *)
(* surveys, assays and traces are the frames of the dataset built first,    *)
(* whose project is the object 1; result.datasets are the datasets that the *)
(* calls returned, in turn.                                                 *)

MaxCalls == 2

(* project_id = None *)
NoProject == "None"

ProjectIds == {"P1", "P2"}

(* ProjectConfig.__init__, lines 32-37 *)
ProjectConfig(project_id, crs) == [project_id |-> project_id, crs |-> crs]

(* the dataset built first *)
FirstDataset ==
  [self |-> 0, project |-> 1, collars |-> collars, surveys |-> surveys,
   assays |-> assays, traces |-> traces]

(* the dataset 0 (built first) or the dataset that call r returned *)
DatasetAt(r) == IF r = 0 THEN FirstDataset ELSE result.datasets[r]

(* df[df["hole_id"].isin(hole_ids)], lines 81-86 *)
IsIn(df, hole_ids) ==
  [columns |-> df.columns,
   rows |-> SelectSeq(df.rows, LAMBDA r : r.hole_id \in hole_ids)]

(* data.py lines 475-478 *)
filter_by_project(df, project_id) ==
  IF project_id = NoProject \/ IsEmpty(df) \/ "project_id" \notin df.columns
  THEN df
  ELSE [columns |-> df.columns,
        rows |-> SelectSeq(df.rows, LAMBDA r : r.project_id = project_id)]

(* lines 77-88: a dataset of its own that holds the project object of the  *)
(* receiver                                                                *)
select_holes(ds, at, hole_ids) ==
  [self |-> at, project |-> ds.project,
   collars |-> IsIn(ds.collars, hole_ids),
   surveys |-> IsIn(ds.surveys, hole_ids),
   assays |-> IsIn(ds.assays, hole_ids),
   traces |-> IsIn(ds.traces, hole_ids)]

(* lines 93-102: a dataset of its own that holds the project object of the *)
(* receiver                                                                *)
filter_project(ds, at, project_id) ==
  [self |-> at, project |-> ds.project,
   collars |-> filter_by_project(ds.collars, project_id),
   surveys |-> filter_by_project(ds.surveys, project_id),
   assays |-> filter_by_project(ds.assays, project_id),
   traces |-> filter_by_project(ds.traces, project_id)]

(* line 103: filtered.project.project_id = project_id writes into the      *)
(* object that filtered.project refers to                                  *)
SetProjectId(heap, ref, project_id) ==
  [heap EXCEPT ![ref] = [@ EXCEPT !.project_id = project_id]]

ProjectRowAt(h, p) == [hole_id |-> h, project_id |-> p]

ProjectRows == {ProjectRowAt("A", "P1"), ProjectRowAt("B", "P2"), ProjectRowAt("B", "P1")}

ProjectTables ==
  {[columns |-> {"hole_id", "project_id"}, rows |-> rows] :
     rows \in UNION {[1..n -> ProjectRows] : n \in 0..2}}

(* a dataset with collars of one or two projects, surveys of both, no      *)
(* assays and traces without a project_id column                           *)
InitDataset ==
  /\ collars \in ProjectTables
  /\ surveys = [columns |-> {"hole_id", "project_id"},
                rows |-> <<ProjectRowAt("A", "P1"), ProjectRowAt("B", "P2")>>]
  /\ assays = EmptyTable
  /\ traces = [columns |-> {"hole_id"}, rows |-> <<[hole_id |-> "A"], [hole_id |-> "B"]>>]
  /\ \E p \in {NoProject} \cup ProjectIds :
        result = [op |-> "none", returned |-> 0,
                  project |-> <<ProjectConfig(p, "EPSG:4326")>>,
                  datasets |-> << >>]
  /\ pc = "start"

AfterCall(n) == IF n = MaxCalls THEN "done" ELSE "start"

(* dataset.select_holes(hole_ids) on the dataset r *)
SelectHolesCall ==
  /\ pc = "start"
  /\ Len(result.datasets) < MaxCalls
  /\ \E r \in 0..Len(result.datasets), hole_ids \in SUBSET Holes :
        LET at == Len(result.datasets) + 1
        IN result' = [result EXCEPT
                        !.op = "select_holes",
                        !.returned = at,
                        !.datasets = Append(@, select_holes(DatasetAt(r), at, hole_ids))]
  /\ pc' = AfterCall(Len(result.datasets) + 1)
  /\ UNCHANGED <<collars, surveys, assays, traces>>

(* dataset.filter_project(project_id) on the dataset r: lines 91-92 return *)
(* the receiver itself                                                     *)
FilterProjectCall ==
  /\ pc = "start"
  /\ Len(result.datasets) < MaxCalls
  /\ \E r \in 0..Len(result.datasets), project_id \in {NoProject} \cup ProjectIds :
        LET at == Len(result.datasets) + 1
            ds == DatasetAt(r)
        IN IF project_id = NoProject
           THEN result' = [result EXCEPT
                             !.op = "filter_project",
                             !.returned = ds.self,
                             !.datasets = Append(@, ds)]
           ELSE result' = [result EXCEPT
                             !.op = "filter_project",
                             !.returned = at,
                             !.datasets = Append(@, filter_project(ds, at, project_id)),
                             !.project = SetProjectId(@, ds.project, project_id)]
  /\ pc' = AfterCall(Len(result.datasets) + 1)
  /\ UNCHANGED <<collars, surveys, assays, traces>>

NextDataset == SelectHolesCall \/ FilterProjectCall

SpecDataset == InitDataset /\ [][NextDataset]_vars

----------------------------------------------------------------------------
(* Properties of the dataset calls *)

(* the frames of the dataset built first stay as they are *)
FramesKept ==
  /\ collars' = collars
  /\ surveys' = surveys
  /\ assays' = assays
  /\ traces' = traces

(* the ProjectConfig of the dataset built first stays as it is *)
ProjectKept == result'.project[FirstDataset.project] = result.project[FirstDataset.project]

(* the call returned a dataset other than every dataset there was *)
ReturnedNew == result'.returned = Len(result.datasets) + 1

(* C29: filter_project(project_id) and select_holes(hole_ids) return a new *)
(* dataset and leave the receiver unchanged: after any sequence of these   *)
(* calls the tables of the original dataset and its ProjectConfig, with    *)
(* project.project_id, have the values they had before the calls.          *)
C29_ReceiverUnchanged == [][FramesKept /\ ProjectKept /\ ReturnedNew]_vars

(* the frames of the dataset built first are kept by every call, and       *)
(* select_holes keeps its ProjectConfig and returns a new dataset          *)
SelectHolesKeepsReceiver ==
  [][/\ FramesKept
     /\ result'.op = "select_holes" => (ProjectKept /\ ReturnedNew)]_vars

----------------------------------------------------------------------------
(* The dashboard: demo-viewer-dash/app.py.  result holds the properties of *)
(* the components: the stores popup_hole, selected_hole and open_mode      *)
(* (lines 760-762), the pathname of the url (line 759), the className of   *)
(* the popup panel (line 880, "none" while the map page is not rendered),  *)
(* the clickData of the map (0 for None, k for the marker of the collar k) *)
(* and whether update_popup is still to run for a written popup_hole.      *)
(* collars is DATASET["collars"].  An Input fires its callback when the    *)
(* property changes: n_clicks grows with every click, the clickData of a   *)
(* marker clicked twice in a row is the same value.                        *)

MaxEvents == 4

MarkerAt(h, lat, lon) == [hole_id |-> h, latitude |-> lat, longitude |-> lon]

(* one hole; two holes in either order; two holes on one spot *)
DashCollars ==
  { <<MarkerAt("A", 0, 0)>>,
    <<MarkerAt("A", 0, 0), MarkerAt("B", 1, 1)>>,
    <<MarkerAt("B", 1, 1), MarkerAt("A", 0, 0)>>,
    <<MarkerAt("A", 0, 0), MarkerAt("B", 0, 0)>> }

(* lines 948-954: the hole id of the first collar with the least           *)
(* |latitude - lat| + |longitude - lon|                                    *)
NearestHole(lat, lon) ==
  LET dist(i) == Abs(collars.rows[i].latitude - lat)
                   + Abs(collars.rows[i].longitude - lon)
      idxmin == CHOOSE i \in 1..Len(collars.rows) :
                   /\ \A j \in 1..Len(collars.rows) : dist(i) <= dist(j)
                   /\ \A j \in 1..(i - 1) : dist(j) > dist(i)
  IN collars.rows[idxmin].hole_id

(* the hole that a click on the marker k opens *)
HoleOfMarker(k) == NearestHole(collars.rows[k].latitude, collars.rows[k].longitude)

InitDash ==
  /\ collars \in {[columns |-> {"hole_id", "latitude", "longitude"}, rows |-> rows] :
                    rows \in DashCollars}
  /\ surveys = EmptyTable
  /\ assays = EmptyTable
  /\ traces = EmptyTable
  /\ \E selected \in {"", "A", "B"}, in_popup \in BOOLEAN :
        result = [op |-> "none", events |-> 0, clicked |-> 0,
                  popup_hole |-> "", selected_hole |-> selected,
                  pathname |-> "/", open_mode |-> [open_in_popup |-> in_popup],
                  className |-> "popup hidden", clickData |-> 0,
                  pending |-> FALSE]
  /\ pc = "start"

(* a user event on the map page *)
OnMapPage == pc = "start" /\ result.events < MaxEvents /\ result.pathname = "/"

(* render_page, lines 793-: the page of the pathname replaces the map page, *)
(* with its map and its popup panel                                         *)
Navigated(r, hole_id) ==
  [r EXCEPT !.popup_hole = "", !.selected_hole = hole_id,
            !.pathname = "/drillhole-2d", !.className = "none",
            !.clickData = 0, !.pending = FALSE]

(* handle_map_click_or_popup with the trigger collar-map, lines 937-962 *)
MapClick ==
  /\ OnMapPage
  /\ \E k \in 1..Len(collars.rows) :
        LET r == [result EXCEPT !.op = "map_click", !.events = @ + 1, !.clicked = k]
            hole_id == HoleOfMarker(k)
        IN IF result.clickData = k
           THEN result' = r
           ELSE IF r.open_mode.open_in_popup
           THEN result' = [r EXCEPT !.clickData = k, !.popup_hole = hole_id,
                                    !.pending = TRUE]
           ELSE result' = Navigated(r, hole_id)
  /\ UNCHANGED <<collars, surveys, assays, traces, pc>>

(* handle_map_click_or_popup with the trigger popup-close, lines 929-930 *)
CloseClick ==
  /\ OnMapPage
  /\ result' = [result EXCEPT !.op = "close", !.events = @ + 1,
                              !.popup_hole = "", !.pending = TRUE]
  /\ UNCHANGED <<collars, surveys, assays, traces, pc>>

(* handle_map_click_or_popup with the trigger popup-open-page, lines 932-935 *)
OpenPageClick ==
  /\ OnMapPage
  /\ LET r == [result EXCEPT !.op = "open_page", !.events = @ + 1]
     IN IF result.popup_hole # ""
        THEN result' = Navigated(r, result.popup_hole)
        ELSE result' = r
  /\ UNCHANGED <<collars, surveys, assays, traces, pc>>

(* update_open_mode, lines 895-902, for a click on the check box that      *)
(* update_sidebar_panel renders on the map page (lines 1062-1067)          *)
update_open_mode ==
  /\ OnMapPage
  /\ result' = [result EXCEPT !.op = "open_mode", !.events = @ + 1,
                              !.open_mode = [open_in_popup |-> ~@.open_in_popup]]
  /\ UNCHANGED <<collars, surveys, assays, traces, pc>>

(* the link "Map" of the side bar, line 773: the map page is rendered anew *)
(* and update_popup runs for its new popup panel                           *)
MapLinkClick ==
  /\ pc = "start"
  /\ result.events < MaxEvents
  /\ result.pathname # "/"
  /\ result' = [result EXCEPT !.op = "map_link", !.events = @ + 1,
                              !.pathname = "/", !.className = "popup hidden",
                              !.clickData = 0, !.pending = TRUE]
  /\ UNCHANGED <<collars, surveys, assays, traces, pc>>

(* update_popup, lines 965-980 *)
update_popup ==
  /\ pc = "start"
  /\ result.pending
  /\ result' = [result EXCEPT !.op = "update_popup", !.pending = FALSE,
                              !.className = IF result.popup_hole = ""
                                            THEN "popup hidden" ELSE "popup"]
  /\ UNCHANGED <<collars, surveys, assays, traces, pc>>

NextDash ==
  \/ MapClick
  \/ CloseClick
  \/ OpenPageClick
  \/ update_open_mode
  \/ MapLinkClick
  \/ update_popup

SpecDash == InitDash /\ [][NextDash]_vars

----------------------------------------------------------------------------
(* Properties of the dashboard *)

(* the popup panel is visible exactly when popup_hole holds a hole id,     *)
(* once update_popup has run                                               *)
PanelFollowsStore ==
  ~result'.pending => (result'.className = "popup" <=> result'.popup_hole # "")

StoresAre(popup, selected, pathname) ==
  /\ result'.popup_hole = popup
  /\ result'.selected_hole = selected
  /\ result'.pathname = pathname

(* what a click on a marker does, in popup mode and in page mode *)
MapClickOpens ==
  result'.op = "map_click" =>
     IF result.open_mode.open_in_popup
     THEN StoresAre(HoleOfMarker(result'.clicked), result.selected_hole,
                    result.pathname)
     ELSE StoresAre("", HoleOfMarker(result'.clicked), "/drillhole-2d")

(* what "Close" and "Open page" do *)
ButtonsAct ==
  /\ result'.op = "close" =>
        StoresAre("", result.selected_hole, result.pathname)
  /\ result'.op = "open_page" =>
        IF result.popup_hole # ""
        THEN StoresAre("", result.popup_hole, "/drillhole-2d")
        ELSE StoresAre(result.popup_hole, result.selected_hole, result.pathname)

(* C30: after any sequence of map clicks, "Close" clicks, "Open page"      *)
(* clicks and toggles of the open mode the popup panel is visible exactly  *)
(* when popup-hole-store holds a hole id: a map click in popup mode sets   *)
(* popup-hole-store to the hole id of the nearest collar and changes       *)
(* neither selected-hole-store nor the URL, a map click in page mode       *)
(* clears the popup, sets selected-hole-store to that hole and navigates   *)
(* to /drillhole-2d, "Close" clears popup-hole-store only, and "Open page" *)
(* with a popup hole clears the popup, sets selected-hole-store to the     *)
(* hole that was shown and navigates to /drillhole-2d, and changes nothing *)
(* without a popup hole.                                                   *)
C30_PopupFollowsClicks ==
  [][PanelFollowsStore /\ MapClickOpens /\ ButtonsAct]_vars

(* the same, for the map clicks that change the clickData of the map *)
PopupFollowsNewClicks ==
  [][/\ PanelFollowsStore
     /\ result.clickData # result'.clicked => MapClickOpens
     /\ ButtonsAct]_vars

====
